---- MODULE Spec2Model ----
(***************************************************************************)
(* Human walking radar simulator: the gait/segment generator               *)
(* (generate_segments.py), the radar return simulator (simulate_radar.py)  *)
(* and the helpers they call (radar_helpers.py), as state machines.        *)
(*                                                                         *)
(* Numbers.  The program computes in float64; the model computes in        *)
(* integers with fixed units:                                              *)
(*   lengths and coordinates   1 unit = 0.1 mm (1e-4 m)                    *)
(*   relative velocity rv      1 unit = 0.01                               *)
(*   sample rate fs            1 unit = 0.1 Hz                             *)
(*   duration                  1 unit = 1 s                                *)
(*   cycle duration rdc        1 unit = 1 ms                               *)
(*   phases of the gait cycle  1 unit = 1 degree (1/360 of a cycle)        *)
(*   joint angles              1 unit = a quarter turn (90 degrees)        *)
(* Float specials are kept as outcomes: a NaN or infinity that the code    *)
(* runs into is modelled by the exception it ends in.  Rounding error of   *)
(* float64 itself (non-associative sums, x + rlc - x # rlc) is not         *)
(* modelled.                                                               *)
(***************************************************************************)
EXTENDS Integers, Sequences, FiniteSets, Bags, TLC

VARIABLES
    \* ---- generate_segments / _generate_segments ----
    entry,          \* which function the caller called
    forward_motion, \* argument
    height,         \* argument
    rv,             \* argument
    gait_arg,       \* argument gait as passed in ("" = select from rv)
    fs,             \* argument of generate_segments
    duration,       \* argument of generate_segments
    nt,             \* samples per cycle (computed, or argument of _generate_segments)
    numcyc,         \* number of cycles (computed, or argument of _generate_segments)
    gait,           \* local gait after line 156
    curves,         \* the joint-angle curves the kinematic chain reads
    segments,       \* dict landmark -> rows of (x, y, z)
    lengths,        \* dict of the nine segment lengths
    cur,            \* position of the replication loops (key index, cycle i)
    phase,          \* the computations carried out so far, in order
    pc,             \* position in the generator
    err,            \* the exception the generator ended in, "" if none
    \* ---- simulate_radar ----
    segment,        \* argument: dict landmark -> rows of (x, y, z)
    seglength,      \* argument: dict of segment lengths
    lambda_,        \* argument
    rangeres,       \* argument
    radarloc,       \* argument
    config,         \* argument: dict part -> enabled
    nr,             \* number of range bins
    numpl,          \* number of pulses
    data,           \* the range-time matrix: data[b][k], rows b = 0..nr-1 kept as 1..nr
    k,              \* loop variable: the pulse being processed
    rpc,            \* position in the simulator
    rerr,           \* the exception the simulator ended in, "" if none
    \* ---- dataset_generator_tool.generate / _single_config_generation ----
    config_set,     \* argument: [list |-> is it a list, n |-> number of configurations]
    n_samples,      \* argument
    rvs,            \* argument: the velocity of each sample (index 0 kept as 1)
    files,          \* the directory ddir: file name -> the writes it received
    config_counts,  \* local of generate, << >> while unbound
    config_offsets, \* local of generate, << >> while unbound
    worker,         \* the pool's call of _single_config_generation for each cf_idx
    gpc,            \* position in generate
    gerr            \* the exception generate ended in, "" if none

segvars == <<entry, forward_motion, height, rv, gait_arg, fs, duration, nt, numcyc,
             gait, curves, segments, lengths, cur, phase, pc, err>>
radvars == <<segment, seglength, lambda_, rangeres, radarloc, config, nr, numpl,
             data, k, rpc, rerr>>
dsvars == <<config_set, n_samples, rvs, files, config_counts, config_offsets,
            worker, gpc, gerr>>
vars == <<segvars, radvars, dsvars>>

-----------------------------------------------------------------------------
(* Arithmetic of the float operations the code uses, on integers.          *)

Abs(x) == IF x < 0 THEN -x ELSE x

RECURSIVE SqrtSearch(_, _, _)
SqrtSearch(n, lo, hi) ==
    \* the largest r in lo..hi with r*r <= n, given lo*lo <= n
    IF lo = hi THEN lo
    ELSE LET mid == (lo + hi + 1) \div 2
         IN  IF mid * mid <= n THEN SqrtSearch(n, mid, hi)
             ELSE SqrtSearch(n, lo, mid - 1)

\* np.sqrt on a non-negative number, rounded down to the unit
ISqrt(n) == SqrtSearch(n, 0, IF n < 46340 THEN n ELSE 46340)

\* np.ceil(n/d) followed by int(), for d # 0
Ceil(n, d) ==
    LET nn == IF d < 0 THEN -n ELSE n
        dd == Abs(d)
    IN  -((-nn) \div dd)

\* np.round(n/d) followed by int(): to the nearest integer, a tie to the even one
RoundHalfEven(n, d) ==
    LET nn == IF d < 0 THEN -n ELSE n
        dd == Abs(d)
        q  == nn \div dd
        r  == nn - q * dd
    IN  IF 2 * r < dd THEN q
        ELSE IF 2 * r > dd THEN q + 1
        ELSE IF q % 2 = 0 THEN q ELSE q + 1

\* np.sin of an angle given in degrees, times 1000 (Bhaskara's rational
\* approximation on the half turn, odd symmetry on the other half)
SinMilli(deg) ==
    LET d == deg % 360
        h == IF d <= 180 THEN d ELSE d - 180
        p == h * (180 - h)
        s == (4000 * p) \div (40500 - p)
    IN  IF d <= 180 THEN s ELSE -s

-----------------------------------------------------------------------------
(* generate_segments.py                                                     *)

get_gait_upper_inclusive(v) ==
    IF v <= 0 THEN "TypeError"
    ELSE IF v <= 50 THEN "a"
    ELSE IF v <= 130 THEN "b"
    ELSE IF v <= 300 THEN "c"
    ELSE "TypeError"

\* get_gait: the class for a velocity, or the exception of `raise '<text>'`
\* (raising a str is a TypeError in Python 3)
get_gait(v) ==
    IF v <= 0 THEN "TypeError"
    ELSE IF v < 50 THEN "a"
    ELSE IF v < 130 THEN "b"
    ELSE IF v <= 300 THEN "c"
    ELSE "TypeError"

\* rlc = 1.346*np.sqrt(rv), in length units, for rv >= 0
rlc_of(v) == ISqrt(1811716 * v)

\* Ht = upperleglen + lowerleglen = 0.245*height + 0.246*height
Ht_of(h) == (2450 * h) \div 10000 + (2460 * h) \div 10000

\* rdc = rlc/(rv*Ht) in ms, for rv > 0 and height # 0
rdc_of(v, h) ==
    LET den == (v * Ht_of(h)) \div 10
    IN  IF den >= 0 THEN (rlc_of(v) * 10000) \div den
        ELSE -((rlc_of(v) * 10000) \div (-den))

\* lines 65-76 of generate_segments for rv > 0, height # 0 and numcyc # 0:
\* the samples per cycle passed on
nt_of(v, h, f, d) ==
    LET rdc == rdc_of(v, h)
        nc  == Ceil(1000 * d, rdc)
        T   == rdc * nc
        npl == RoundHalfEven(T * f, 10000)
        n   == RoundHalfEven(npl, nc)
    IN  n + (IF n % 2 = 1 THEN 1 ELSE 0)

\* numcyc = int(np.ceil(duration/rdc)), for rv > 0 and height # 0
numcyc_of(v, h, d) == Ceil(1000 * d, rdc_of(v, h))

\* The exception the cycle timing of generate_segments (lines 59-76) ends in,
\* "" if it reaches the call of _generate_segments:
\*   rv <= 0      rlc is NaN or 0, rdc = NaN, int(np.ceil(NaN)) raises ValueError
\*   height = 0   rdc = inf, numcyc = 0, T = inf*0 = NaN, int(np.round(NaN)) raises
\*   numcyc = 0   numpl/numcyc is an int division by zero
timing_error(v, h, f, d) ==
    IF v <= 0 THEN "ValueError"
    ELSE IF h = 0 THEN "ValueError"
    ELSE IF numcyc_of(v, h, d) = 0 THEN "ZeroDivisionError"
    ELSE ""

-----------------------------------------------------------------------------
(* _generate_segments: body dimensions, timing and translation curves.      *)

\* lines 123-131: the nine segment lengths from the height
headlen(h)     == (1300 * h) \div 10000
shoulderlen(h) == (1295 * h) \div 10000
torsolen(h)    == (2880 * h) \div 10000
hiplen(h)      == (955 * h) \div 10000
upperleglen(h) == (2450 * h) \div 10000
lowerleglen(h) == (2460 * h) \div 10000
footlen(h)     == (1430 * h) \div 10000
upperarmlen(h) == (1880 * h) \div 10000
lowerarmlen(h) == (1520 * h) \div 10000

\* lines 144-146: dsmod = ds/dc = 0.752 - 0.143/dc with dc = rlc/rv, times 1000
dsmod_of(v) == 752 - (14300 * v) \div rlc_of(v)

\* line 164, 173-175, 184-186: amplitudes of the three translations
av_of(v) == (3 * v) \div 2
al_of(g, v) == IF g = "a" THEN (1280 * v * (100 - v)) \div 10000 ELSE -320
aa_of(g, v) == IF g = "a" THEN (840 * v * (100 - v)) \div 10000 ELSE -210

\* line 165: verttrans[i] = -av + av*sin(2*pi*(2*t[i] - 0.35)), t[i] = i/nt
verttrans(v, n, i) ==
    -av_of(v) + (av_of(v) * SinMilli((720 * i) \div n - 126)) \div 1000

\* line 176: lattrans[i] = al*sin(2*pi*(t[i] - 0.1))
lattrans(g, v, n, i) == (al_of(g, v) * SinMilli((360 * i) \div n - 36)) \div 1000

\* lines 187-188: transforback[i] = aa*sin(2*pi*(2*t[i] + 2*phia)), phia = 0.625 - dsmod
transforback(g, v, n, i) ==
    LET phia == 625 - dsmod_of(v)
    IN  (aa_of(g, v) * SinMilli((720 * i) \div n + (720 * phia) \div 1000)) \div 1000

\* line 679: np.linspace(0, rlc - rlc/(nt+1), nt)[i] = i * (rlc*nt/(nt+1)) / (nt-1)
forward_offset(v, n, i) ==
    IF n = 1 THEN 0 ELSE (i * rlc_of(v) * n) \div ((n + 1) * (n - 1))

-----------------------------------------------------------------------------
(* radar_helpers.XYZConvention and the kinematic chain of                   *)
(* _generate_segments (lines 409-653).  Joint angles are whole quarter      *)
(* turns, so that sines and cosines are 0, 1 or -1 and the chain is exact.  *)

S4(a) == LET m == a % 4 IN IF m = 1 THEN 1 ELSE IF m = 3 THEN -1 ELSE 0
C4(a) == S4(a + 1)

\* radar_helpers.py lines 24-32: the elementary rotations of the docstring
Rx(psi) ==
    << << 1, 0, 0 >>, << 0, C4(psi), S4(psi) >>, << 0, -S4(psi), C4(psi) >> >>
Ry(theta) ==
    << << C4(theta), 0, -S4(theta) >>, << 0, 1, 0 >>, << S4(theta), 0, C4(theta) >> >>
Rz(phi) ==
    << << C4(phi), S4(phi), 0 >>, << -S4(phi), C4(phi), 0 >>, << 0, 0, 1 >> >>
MatMul(A, B) ==
    [r \in 1..3 |-> [c \in 1..3 |->
        A[r][1] * B[1][c] + A[r][2] * B[2][c] + A[r][3] * B[3][c]]]

XYZConventionRollLast(psi, theta, phi) == MatMul(Rx(psi), MatMul(Ry(theta), Rz(phi)))

\* radar_helpers.py lines 39-43
XYZConvention(psi, theta, phi) ==
    << << C4(theta) * C4(phi),
          S4(psi) * S4(theta) * C4(phi) + C4(psi) * S4(phi),
          -C4(psi) * S4(theta) * C4(phi) + S4(psi) * S4(phi) >>,
       << -C4(theta) * S4(phi),
          -S4(psi) * S4(theta) * S4(phi) + C4(psi) * C4(phi),
          C4(psi) * S4(theta) * S4(phi) + S4(psi) * C4(phi) >>,
       << S4(theta),
          -S4(psi) * C4(theta),
          C4(psi) * C4(theta) >> >>

\* np.dot(Rxyz, v)
Dot(R, v) ==
    << R[1][1] * v[1] + R[1][2] * v[2] + R[1][3] * v[3],
       R[2][1] * v[1] + R[2][2] * v[2] + R[2][3] * v[3],
       R[3][1] * v[1] + R[3][2] * v[2] + R[3][3] * v[3] >>

VAdd(a, b) == << a[1] + b[1], a[2] + b[2], a[3] + b[3] >>

\* the angle curves of one cycle, each a function on 0..nt-1
CurveNames == {"flexankle", "flexknee", "flexhip", "rotleftright", "torrot",
               "flexelbow", "flexshoulder", "rotforback", "motthor"}

LeftPhaseSecondHalfStale(c, n, i) == IF i < n \div 2 THEN c[i + n \div 2] ELSE c[i]

\* the[:round(nt/2)] = c[round(nt/2):nt]; the[round(nt/2):nt] = c[:round(nt/2)]
\* for even nt: the left side runs half a cycle ahead of the right side
LeftPhase(c, n, i) == IF i < n \div 2 THEN c[i + n \div 2] ELSE c[i - n \div 2]
RightPhase(c, n, i) == c[i]
SidePhase(side, c, n, i) ==
    IF side = "Left" THEN LeftPhase(c, n, i) ELSE RightPhase(c, n, i)
SideSign(side) == IF side = "Left" THEN 1 ELSE -1

\* lines 427-450: toe after the ankle flexing
ToeAnkle(cv, h, n, side, i) ==
    LET t == Dot(XYZConvention(0, SidePhase(side, cv.flexankle, n, i), 0),
                 << footlen(h), 0, 0 >>)
    IN  << t[1], t[2] + SideSign(side) * hiplen(h),
           t[3] - (upperleglen(h) + lowerleglen(h)) >>

\* lines 452-481: ankle and toe after the knee flexing
KneeRot(cv, n, side, i) == XYZConvention(0, -SidePhase(side, cv.flexknee, n, i), 0)
AnkleKnee(cv, h, n, side, i) ==
    LET t == Dot(KneeRot(cv, n, side, i), << 0, 0, -lowerleglen(h) >>)
    IN  << t[1], t[2] + SideSign(side) * hiplen(h), t[3] - upperleglen(h) >>
ToeKnee(cv, h, n, side, i) ==
    LET p == ToeAnkle(cv, h, n, side, i)
        t == Dot(KneeRot(cv, n, side, i), << p[1], 0, p[3] + upperleglen(h) >>)
    IN  << t[1], t[2] + SideSign(side) * hiplen(h), t[3] - upperleglen(h) >>

\* lines 483-520: knee, ankle and toe after the hip flexing
HipRot(cv, n, side, i) == XYZConvention(0, SidePhase(side, cv.flexhip, n, i), 0)
KneeHip(cv, h, n, side, i) ==
    LET t == Dot(HipRot(cv, n, side, i), << 0, 0, -upperleglen(h) >>)
    IN  << t[1], t[2] + SideSign(side) * hiplen(h), t[3] >>
AnkleHip(cv, h, n, side, i) ==
    LET p == AnkleKnee(cv, h, n, side, i)
        t == Dot(HipRot(cv, n, side, i), << p[1], 0, p[3] >>)
    IN  << t[1], t[2] + SideSign(side) * hiplen(h), t[3] >>
ToeHip(cv, h, n, side, i) ==
    LET p == ToeKnee(cv, h, n, side, i)
        t == Dot(HipRot(cv, n, side, i), << p[1], 0, p[3] >>)
    IN  << t[1], t[2] + SideSign(side) * hiplen(h), t[3] >>

\* lines 522-559: the rotation of the lower body
PelvisRot(cv, i) == XYZConvention(-cv.rotleftright[i], 0, cv.torrot[i])

\* lines 561-583: hand after the elbow flexing
HandElbow(cv, h, n, side, i) ==
    LET t == Dot(XYZConvention(0, SidePhase(side, cv.flexelbow, n, i), 0),
                 << 0, 0, -lowerarmlen(h) >>)
    IN  << t[1], t[2] + SideSign(side) * shoulderlen(h),
           t[3] + (torsolen(h) - upperarmlen(h)) >>

\* lines 585-614: elbow and hand after the shoulder flexing
ShoulderRot(cv, n, side, i) ==
    XYZConvention(0, SidePhase(side, cv.flexshoulder, n, i), 0)
ElbowShoulder(cv, h, n, side, i) ==
    LET t == Dot(ShoulderRot(cv, n, side, i), << 0, 0, -upperarmlen(h) >>)
    IN  << t[1], t[2] + SideSign(side) * shoulderlen(h), t[3] + torsolen(h) >>
HandShoulder(cv, h, n, side, i) ==
    LET p == HandElbow(cv, h, n, side, i)
        t == Dot(ShoulderRot(cv, n, side, i), << p[1], 0, p[3] - torsolen(h) >>)
    IN  << t[1], t[2] + SideSign(side) * shoulderlen(h), t[3] + torsolen(h) >>

\* lines 616-653: the rotation of the upper body.  The elbows are rotated
\* from [elbow[0,i], elbow[1,i], elbow[2,0]]: the height of sample 0, which
\* iteration 0 has already overwritten when iteration i > 0 reads it.
SpineRot(cv, i) == XYZConvention(0, cv.rotforback[i], cv.motthor[i])
ElbowSpine(cv, h, n, side, i) ==
    LET p0 == ElbowShoulder(cv, h, n, side, 0)
        z0 == Dot(SpineRot(cv, 0), p0)[3]
        p  == ElbowShoulder(cv, h, n, side, i)
    IN  IF i = 0 THEN Dot(SpineRot(cv, 0), p0)
        ELSE Dot(SpineRot(cv, i), << p[1], p[2], z0 >>)

\* the landmarks in the order the dict `segments` is filled (lines 698-714)
Keys == << "Base", "Neck", "Head", "Left Shoulder", "Right Shoulder",
           "Left Elbow", "Right Elbow", "Left Hand", "Right Hand",
           "Left Hip", "Right Hip", "Left Knee", "Right Knee",
           "Left Ankle", "Right Ankle", "Left Toe", "Right Toe" >>
KeySet == {Keys[x] : x \in 1..Len(Keys)}

\* lines 409-656: the position of a landmark at sample i, relative to the
\* origin of the body coordinate system (base is the origin itself)
ChainPos(cv, h, n, key, i) ==
    CASE key = "Base" -> << 0, 0, 0 >>
      [] key = "Neck" -> Dot(SpineRot(cv, i), << 0, 0, torsolen(h) >>)
      [] key = "Head" -> Dot(SpineRot(cv, i), << 0, 0, torsolen(h) + headlen(h) >>)
      [] key = "Left Shoulder" ->
            Dot(SpineRot(cv, i), << 0, shoulderlen(h), torsolen(h) >>)
      [] key = "Right Shoulder" ->
            Dot(SpineRot(cv, i), << 0, -shoulderlen(h), torsolen(h) >>)
      [] key = "Left Elbow" -> ElbowSpine(cv, h, n, "Left", i)
      [] key = "Right Elbow" -> ElbowSpine(cv, h, n, "Right", i)
      [] key = "Left Hand" -> Dot(SpineRot(cv, i), HandShoulder(cv, h, n, "Left", i))
      [] key = "Right Hand" -> Dot(SpineRot(cv, i), HandShoulder(cv, h, n, "Right", i))
      [] key = "Left Hip" -> Dot(PelvisRot(cv, i), << 0, hiplen(h), 0 >>)
      [] key = "Right Hip" -> Dot(PelvisRot(cv, i), << 0, -hiplen(h), 0 >>)
      [] key = "Left Knee" -> Dot(PelvisRot(cv, i), KneeHip(cv, h, n, "Left", i))
      [] key = "Right Knee" -> Dot(PelvisRot(cv, i), KneeHip(cv, h, n, "Right", i))
      [] key = "Left Ankle" -> Dot(PelvisRot(cv, i), AnkleHip(cv, h, n, "Left", i))
      [] key = "Right Ankle" -> Dot(PelvisRot(cv, i), AnkleHip(cv, h, n, "Right", i))
      [] key = "Left Toe" -> Dot(PelvisRot(cv, i), ToeHip(cv, h, n, "Left", i))
      [] key = "Right Toe" -> Dot(PelvisRot(cv, i), ToeHip(cv, h, n, "Right", i))

\* lines 658-695: the translation added to every landmark, and the forward
\* motion added to its x coordinate
Translation(g, v, n, i) ==
    << transforback(g, v, n, i), lattrans(g, v, n, i), verttrans(v, n, i) >>
Forward(fm, v, n, i) == IF fm THEN forward_offset(v, n, i) ELSE 0

\* lines 409-714: one cycle of every landmark, rows 1..nt for samples 0..nt-1
OneCycle(cv, fm, h, g, v, n) ==
    [key \in KeySet |->
        [j \in 1..n |->
            VAdd(VAdd(ChainPos(cv, h, n, key, j - 1), Translation(g, v, n, j - 1)),
                 << Forward(fm, v, n, j - 1), 0, 0 >>)]]

-----------------------------------------------------------------------------
(* _generate_segments: the abscissae of the control points handed to        *)
(* scipy's PchipInterpolator (1 unit = 1e-4 of a cycle), which raises       *)
(* ValueError unless they are finite and strictly increasing.               *)

hip_x(g, v) ==      \* lines 230-250
    IF g = "c" THEN << (2000 * (v - 130)) \div 170 - 1000, 5000, 9000 >>
    ELSE << -1000, 5000, 9000 >>
knee_x(g, v) ==     \* lines 267-293
    IF g = "c" THEN << 1700 - (500 * (v - 130)) \div 170, 4000,
                       7500 - (500 * (v - 130)) \div 170,
                       10000 - (300 * (v - 130)) \div 170 >>
    ELSE << 1700, 4000, 7500, 10000 >>
ankle_x(g, v) ==    \* lines 306-338
    IF g = "c" THEN << 0, 800, 5000 - (1000 * (v - 130)) \div 170,
                       10 * dsmod_of(v), 8500 >>
    ELSE << 0, 800, 5000, 10 * dsmod_of(v), 8500 >>
thorax_x == << 1000, 4000, 6000, 9000 >>     \* lines 352-355
elbow_x(g, v) ==    \* lines 378-398
    IF g = "a" THEN << 500, 5000, 9000 >>
    ELSE IF g = "b" THEN << 500, 5000 + (100 * (v - 50)) \div 80, 9000 >>
    ELSE << 500, 5100 + (400 * (v - 130)) \div 170,
            9000 - (1000 * (v - 130)) \div 170 >>

Shifted(xs, d) == [j \in 1..Len(xs) |-> xs[j] + d]

\* lines 295, 339, 360, 399: the points of the cycles before and after added
Tiled(xs) == Shifted(xs, -10000) \o xs \o Shifted(xs, 10000)

\* lines 252-257: the hip's points, x1+1 and x3 merged when they coincide
hip_tiled(g, v) ==
    LET xs == hip_x(g, v)
    IN  IF xs[1] + 10000 = xs[3]
        THEN << xs[1] - 10000, xs[2] - 10000, xs[1], xs[2], xs[3],
                xs[2] + 10000, xs[3] + 10000 >>
        ELSE Tiled(xs)

StrictlyIncreasing(xs) == \A j \in 1..(Len(xs) - 1) : xs[j] < xs[j + 1]

\* lines 259, 298, 342, 363, 402, for rv > 0
pchip_accepts(g, v) ==
    /\ StrictlyIncreasing(hip_tiled(g, v))
    /\ StrictlyIncreasing(Tiled(knee_x(g, v)))
    /\ StrictlyIncreasing(Tiled(ankle_x(g, v)))
    /\ StrictlyIncreasing(Tiled(thorax_x))
    /\ StrictlyIncreasing(Tiled(elbow_x(g, v)))

\* line 155-156: the gait the body of _generate_segments works with
resolve_gait(g, v) == IF g = "" THEN get_gait(v) ELSE g

\* The exception the body of _generate_segments ends in before the dict
\* `segments` is built, "" if none:
\*   line 150  dt = 1.0/nt                       ZeroDivisionError for nt = 0
\*   line 151  np.linspace(0, 1.0-dt, nt)        ValueError for nt < 0
\*   line 156  get_gait(rv) raises a str         TypeError
\*   line 342  dsmod is NaN for rv <= 0          ValueError (not finite)
\*   lines 259-402  abscissae not increasing     ValueError
\*   lines 431-432  slices of unequal length     ValueError for odd nt
inner_error(n, v, g) ==
    IF n = 0 THEN "ZeroDivisionError"
    ELSE IF n < 0 THEN "ValueError"
    ELSE IF g = "" /\ get_gait(v) = "TypeError" THEN "TypeError"
    ELSE IF v <= 0 THEN "ValueError"
    ELSE IF ~pchip_accepts(resolve_gait(g, v), v) THEN "ValueError"
    ELSE IF n % 2 = 1 THEN "ValueError"
    ELSE ""

\* lines 193-407: the joint-angle curves of one cycle.  The code computes
\* real angles (closed forms and interpolation); the model takes every
\* curve from a family of quarter-turn valued curves, profile 0 being the
\* straight pose.
MaxProfile == 1
CurveIndex(name) ==
    CASE name = "flexankle" -> 1 [] name = "flexknee" -> 2 [] name = "flexhip" -> 3
      [] name = "rotleftright" -> 4 [] name = "torrot" -> 5 [] name = "flexelbow" -> 6
      [] name = "flexshoulder" -> 7 [] name = "rotforback" -> 8 [] name = "motthor" -> 9
CurveTable(p, n) ==
    [name \in CurveNames |->
        [i \in 0..(n - 1) |-> IF p = 0 THEN 0 ELSE (p * i + CurveIndex(name)) % 4]]

\* lines 723-733
LengthsOf(h) ==
    [c \in {"Head Length", "Shoulder Length", "Torso Length", "Hip Length",
            "Upper Leg Length", "Lower Leg Length", "Foot Length",
            "Upper Arm Length", "Lower Arm Length"} |->
        CASE c = "Head Length" -> headlen(h)
          [] c = "Shoulder Length" -> shoulderlen(h)
          [] c = "Torso Length" -> torsolen(h)
          [] c = "Hip Length" -> hiplen(h)
          [] c = "Upper Leg Length" -> upperleglen(h)
          [] c = "Lower Leg Length" -> lowerleglen(h)
          [] c = "Foot Length" -> footlen(h)
          [] c = "Upper Arm Length" -> upperarmlen(h)
          [] c = "Lower Arm Length" -> lowerarmlen(h)]

NextCycleFromFirst(rows, n, fm, v) ==
    [j \in 1..n |->
        LET r == rows[j]
        IN  << r[1] + (IF fm THEN rlc_of(v) ELSE 0), r[2], r[3] >>]

NextCycleAlwaysForward(rows, n, fm, v) ==
    [j \in 1..n |->
        LET r == rows[Len(rows) - n + j]
        IN  << r[1] + rlc_of(v), r[2], r[3] >>]

\* lines 718-720: temp = np.copy(segments[key][-nt:,:]); temp[:,0] += rlc
NextCycle(rows, n, fm, v) ==
    [j \in 1..n |->
        LET r == rows[Len(rows) - n + j]
        IN  << r[1] + (IF fm THEN rlc_of(v) ELSE 0), r[2], r[3] >>]

-----------------------------------------------------------------------------
(* The calls of the generator the model follows.                            *)

GenCalls ==
    [fm : BOOLEAN, h : {12000, 18000}, v : {1, 30, 50, 100, 130, 300},
     g : {"", "a", "b", "c"}, f : {5, 40}, d : {1, 3}]
    \cup
    [fm : {TRUE}, h : {-18000, 0, 18000}, v : {-100, 0, 100, 350},
     g : {"", "c"}, f : {-40, 0, 40}, d : {-5, 0, 3}]

InnerCalls ==
    [fm : BOOLEAN, h : {18000}, v : {1, 100, 130, 300},
     g : {"", "a", "b", "c"}, n : {2, 4, 6}, nc : {1, 2, 3}]
    \cup
    [fm : {TRUE}, h : {-18000, 0, 18000}, v : {-100, 0, 100, 350},
     g : {"", "b", "c"}, n : {-2, 0, 3, 4}, nc : {-1, 0, 2}]

DatasetIdle ==
    /\ config_set = << >> /\ n_samples = 0 /\ rvs = << >> /\ files = << >>
    /\ config_counts = << >> /\ config_offsets = << >> /\ worker = << >>
    /\ gpc = "idle" /\ gerr = ""

RadarIdle ==
    /\ segment = << >> /\ seglength = << >> /\ lambda_ = 0 /\ rangeres = 0
    /\ radarloc = << 0, 0, 0 >> /\ config = << >> /\ nr = 0 /\ numpl = 0
    /\ data = << >> /\ k = 0 /\ rpc = "idle" /\ rerr = ""

InitSeg ==
    /\ \/ \E c \in GenCalls :
            /\ entry = "generate_segments"
            /\ forward_motion = c.fm /\ height = c.h /\ rv = c.v /\ gait_arg = c.g
            /\ fs = c.f /\ duration = c.d /\ nt = 0 /\ numcyc = 0
            /\ pc = "generate_segments"
       \/ \E c \in InnerCalls :
            /\ entry = "_generate_segments"
            /\ forward_motion = c.fm /\ height = c.h /\ rv = c.v /\ gait_arg = c.g
            /\ fs = 0 /\ duration = 0 /\ nt = c.n /\ numcyc = c.nc
            /\ pc = "_generate_segments"
    /\ gait = gait_arg /\ curves = << >> /\ segments = << >> /\ lengths = << >>
    /\ cur = << 0, 0 >> /\ phase = << >> /\ err = ""
    /\ RadarIdle
    /\ DatasetIdle

\* generate_segments, lines 59-76, ending in an exception
GenerateSegmentsRaise ==
    /\ pc = "generate_segments"
    /\ timing_error(rv, height, fs, duration) # ""
    /\ err' = timing_error(rv, height, fs, duration)
    /\ phase' = Append(phase, "timing")
    /\ pc' = "raised"
    /\ UNCHANGED << entry, forward_motion, height, rv, gait_arg, fs, duration, nt,
                    numcyc, gait, curves, segments, lengths, cur >>
    /\ UNCHANGED radvars
    /\ UNCHANGED dsvars

\* generate_segments, lines 59-86, up to the call of _generate_segments
GenerateSegmentsCall ==
    /\ pc = "generate_segments"
    /\ timing_error(rv, height, fs, duration) = ""
    /\ numcyc' = numcyc_of(rv, height, duration)
    /\ nt' = nt_of(rv, height, fs, duration)
    /\ phase' = Append(phase, "timing")
    /\ pc' = "_generate_segments"
    /\ UNCHANGED << entry, forward_motion, height, rv, gait_arg, fs, duration,
                    gait, curves, segments, lengths, cur, err >>
    /\ UNCHANGED radvars
    /\ UNCHANGED dsvars

\* _generate_segments, lines 119-432, ending in an exception
InnerRaise ==
    /\ pc = "_generate_segments"
    /\ inner_error(nt, rv, gait_arg) # ""
    /\ err' = inner_error(nt, rv, gait_arg)
    /\ phase' = Append(phase, "timing")
    /\ pc' = "raised"
    /\ UNCHANGED << entry, forward_motion, height, rv, gait_arg, fs, duration, nt,
                    numcyc, gait, curves, segments, lengths, cur >>
    /\ UNCHANGED radvars
    /\ UNCHANGED dsvars

\* _generate_segments, lines 119-714: timing, gait, curves, kinematic chain,
\* translation and forward motion of one cycle
InnerGenerate ==
    /\ pc = "_generate_segments"
    /\ inner_error(nt, rv, gait_arg) = ""
    /\ gait' = resolve_gait(gait_arg, rv)
    /\ \E p \in 0..MaxProfile : curves' = CurveTable(p, nt)
    /\ segments' = OneCycle(curves', forward_motion, height, gait', rv, nt)
    /\ phase' = phase \o << "timing", "curves", "chain" >>
    /\ cur' = << 1, 1 >>
    /\ pc' = IF numcyc >= 2 THEN "replicate" ELSE "return"
    /\ UNCHANGED << entry, forward_motion, height, rv, gait_arg, fs, duration, nt,
                    numcyc, lengths, err >>
    /\ UNCHANGED radvars
    /\ UNCHANGED dsvars

\* _generate_segments, lines 716-721: one pass of the inner loop, cycle
\* cur[2] of landmark Keys[cur[1]]
ReplicateCycle ==
    /\ pc = "replicate"
    /\ LET key == Keys[cur[1]]
       IN  segments' = [segments EXCEPT ![key] =
                            @ \o NextCycle(@, nt, forward_motion, rv)]
    /\ IF cur[2] + 1 < numcyc THEN cur' = << cur[1], cur[2] + 1 >> /\ pc' = pc
       ELSE IF cur[1] < Len(Keys) THEN cur' = << cur[1] + 1, 1 >> /\ pc' = pc
       ELSE cur' = cur /\ pc' = "return"
    /\ UNCHANGED << entry, forward_motion, height, rv, gait_arg, fs, duration, nt,
                    numcyc, gait, curves, lengths, phase, err >>
    /\ UNCHANGED radvars
    /\ UNCHANGED dsvars

\* _generate_segments, lines 723-735
ReturnSegments ==
    /\ pc = "return"
    /\ lengths' = LengthsOf(height)
    /\ pc' = "returned"
    /\ UNCHANGED << entry, forward_motion, height, rv, gait_arg, fs, duration, nt,
                    numcyc, gait, curves, segments, cur, phase, err >>
    /\ UNCHANGED radvars
    /\ UNCHANGED dsvars

NextSeg ==
    \/ GenerateSegmentsRaise
    \/ GenerateSegmentsCall
    \/ InnerRaise
    \/ InnerGenerate
    \/ ReplicateCycle
    \/ ReturnSegments

SpecSeg == InitSeg /\ [][NextSeg]_vars

-----------------------------------------------------------------------------
(* radar_helpers.compute_ph and simulate_radar.  Coordinates are integers   *)
(* of one length unit, even ones in the trajectories so that the midpoint   *)
(* of two landmarks is a point of the grid.                                 *)

VSub(a, b) == << a[1] - b[1], a[2] - b[2], a[3] - b[3] >>
VHalf(a) == << a[1] \div 2, a[2] \div 2, a[3] \div 2 >>
VDot(a, b) == a[1] * b[1] + a[2] * b[2] + a[3] * b[3]

\* radar_helpers.py lines 52-75.  distances is returned squared.  PHs =
\* sqrt(rcs)*exp(-1j*4*pi*distances/lambda_) is kept as the arguments that
\* determine it: the ellipsoid, the quotient under the arccos (A.B over
\* sqrt(sum(A*A,1))*sqrt(sum(B*B,1)), the builtin sum starting at 1), the
\* quotient under the asin, and the distance over the wavelength.
compute_ph(aspct, position, ellipsoid, loc, lam) ==
    LET A == VSub(loc, position)
    IN  [PHs |-> [ellipsoid |-> ellipsoid,
                  ThetaAngle |-> << VDot(A, aspct), VDot(A, A) + 1,
                                    VDot(aspct, aspct) + 1 >>,
                  PhiAngle |-> << loc[2] - position[2], A[1] * A[1] + A[2] * A[2] >>,
                  phase |-> << VDot(A, A), lam >>],
         distances |-> VDot(A, A)]

\* the scattering parts in the order the loop body handles them
Parts == << "Head", "Torso", "Left Shoulder", "Right Shoulder",
            "Left Upper Arm", "Right Upper Arm", "Left Lower Arm",
            "Right Lower Arm", "Left Hip", "Right Hip", "Left Upper Leg",
            "Right Upper Leg", "Left Lower Leg", "Right Lower Leg",
            "Left Foot", "Right Foot" >>
PartSet == {Parts[x] : x \in 1..Len(Parts)}

\* lines 48-56: the length each ellipsoid is built from
PartLength(part, sl) ==
    CASE part = "Head" -> sl["Head Length"]
      [] part = "Torso" -> sl["Torso Length"]
      [] part \in {"Left Shoulder", "Right Shoulder"} -> sl["Shoulder Length"]
      [] part \in {"Left Upper Arm", "Right Upper Arm"} -> sl["Upper Leg Length"]   \* line 55
      [] part \in {"Left Lower Arm", "Right Lower Arm"} -> sl["Lower Arm Length"]
      [] part \in {"Left Hip", "Right Hip"} -> sl["Hip Length"]
      [] part \in {"Left Upper Leg", "Right Upper Leg"} -> sl["Upper Leg Length"]
      [] part \in {"Left Lower Leg", "Right Lower Leg"} -> sl["Lower Leg Length"]
      [] part \in {"Left Foot", "Right Foot"} -> sl["Foot Length"]

\* the two equal semi-axes of each ellipsoid, in mm (lines 110-222)
PartRadius(part) ==
    CASE part = "Head" -> 100
      [] part = "Torso" -> 150
      [] part \in {"Left Shoulder", "Right Shoulder", "Left Upper Arm",
                   "Right Upper Arm", "Left Lower Leg", "Right Lower Leg"} -> 60
      [] part \in {"Left Lower Arm", "Right Lower Arm", "Left Foot", "Right Foot"} -> 50
      [] part \in {"Left Hip", "Right Hip", "Left Upper Leg", "Right Upper Leg"} -> 70

\* ellipsoid = (a, a, length/2); the third entry is kept as the length
PartEllipsoid(part, sl) == << PartRadius(part), PartRadius(part), PartLength(part, sl) >>

\* lines 109-222: the aspect vector of a part at row r of the trajectories
PartAspect(part, seg, r) ==
    CASE part = "Head" -> VSub(seg["Head"][r], seg["Neck"][r])
      [] part = "Torso" -> VSub(seg["Neck"][r], seg["Base"][r])
      [] part = "Left Shoulder" -> VSub(seg["Left Shoulder"][r], seg["Neck"][r])
      [] part = "Right Shoulder" -> VSub(seg["Right Shoulder"][r], seg["Neck"][r])
      [] part = "Left Upper Arm" -> VSub(seg["Left Shoulder"][r], seg["Left Elbow"][r])
      [] part = "Right Upper Arm" -> VSub(seg["Right Shoulder"][r], seg["Right Elbow"][r])
      [] part = "Left Lower Arm" -> VSub(seg["Left Elbow"][r], seg["Left Hand"][r])
      [] part = "Right Lower Arm" -> VSub(seg["Right Elbow"][r], seg["Right Hand"][r])
      [] part = "Left Hip" -> VSub(seg["Left Hip"][r], seg["Base"][r])
      [] part = "Right Hip" -> VSub(seg["Right Hip"][r], seg["Base"][r])
      [] part = "Left Upper Leg" -> VSub(seg["Left Knee"][r], seg["Left Hip"][r])
      [] part = "Right Upper Leg" -> VSub(seg["Right Knee"][r], seg["Right Hip"][r])
      [] part = "Left Lower Leg" -> VSub(seg["Left Ankle"][r], seg["Left Knee"][r])
      [] part = "Right Lower Leg" -> VSub(seg["Right Ankle"][r], seg["Right Knee"][r])
      [] part = "Left Foot" -> VSub(seg["Left Ankle"][r], seg["Left Toe"][r])
      [] part = "Right Foot" -> VSub(seg["Right Ankle"][r], seg["Right Toe"][r])

\* lines 109-222: the position handed to compute_ph for a part
PartPosition(part, seg, r) ==
    CASE part = "Head" -> seg["Head"][r]
      [] part = "Torso" -> VHalf(VAdd(seg["Neck"][r], seg["Base"][r]))
      [] part = "Left Shoulder" -> seg["Left Shoulder"][r]
      [] part = "Right Shoulder" -> seg["Right Shoulder"][r]
      [] part = "Left Upper Arm" ->
            VHalf(VAdd(seg["Left Shoulder"][r], seg["Left Elbow"][r]))
      [] part = "Right Upper Arm" ->
            VHalf(VAdd(seg["Right Shoulder"][r], seg["Right Elbow"][r]))
      [] part = "Left Lower Arm" -> seg["Left Hand"][r]
      [] part = "Right Lower Arm" -> seg["Right Hand"][r]
      [] part = "Left Hip" -> seg["Left Hip"][r]
      [] part = "Right Hip" -> seg["Right Hip"][r]
      [] part = "Left Upper Leg" -> VHalf(VAdd(seg["Left Hip"][r], seg["Left Knee"][r]))
      [] part = "Right Upper Leg" -> VHalf(VAdd(seg["Right Hip"][r], seg["Right Knee"][r]))
      [] part = "Left Lower Leg" -> VHalf(VAdd(seg["Left Ankle"][r], seg["Left Knee"][r]))
      [] part = "Right Lower Leg" -> VHalf(VAdd(seg["Right Ankle"][r], seg["Right Knee"][r]))
      [] part = "Left Foot" -> seg["Left Toe"][r]
      [] part = "Right Foot" -> seg["Right Toe"][r]

\* the call of compute_ph for a part at pulse kk (row kk + 1)
PartReturn(part, seg, sl, loc, lam, kk) ==
    compute_ph(PartAspect(part, seg, kk + 1), PartPosition(part, seg, kk + 1),
               PartEllipsoid(part, sl), loc, lam)

r_index_two_way(dist2, res) == (2 * ISqrt(dist2)) \div res

\* r_index = int(np.floor(distances/rangeres))
r_index_of(dist2, res) == ISqrt(dist2) \div res

PartBin(part, seg, sl, loc, lam, res, kk) ==
    r_index_of(PartReturn(part, seg, sl, loc, lam, kk).distances, res)

nr_truncated(loc, res) == (2 * ISqrt(VDot(loc, loc))) \div res

\* line 99: nr = round(2*np.sqrt(x^2 + y^2 + z^2)/rangeres), a tie to the even
nr_of(loc, res) ==
    LET s == VDot(loc, loc)
        q == ISqrt(s)
    IN  IF q * q = s THEN RoundHalfEven(2 * q, res)
        ELSE (ISqrt(16 * s) + res) \div (2 * res)

row_clamped(r, n) == IF r >= n THEN n - 1 ELSE IF r < -n THEN 0 ELSE r % n

\* the row data[r_index, k] refers to in a matrix of n rows: numpy counts a
\* negative index from the end and raises IndexError outside -n..n-1 (-1 here)
row_of(r, n) == IF r >= n \/ r < -n THEN -1 ELSE r % n

\* the matrix entry data[b, kk]; the matrix is kept as its non-zero entries,
\* each the bag of the returns added into it
Entry(d, b, kk) == IF << b, kk >> \in DOMAIN d THEN d[<< b, kk >>] ELSE EmptyBag

Stored(d, b, kk, ph) ==
    [c \in (DOMAIN d) \cup {<< b, kk >>} |-> IF c = << b, kk >> THEN SetToBag({ph}) ELSE d[c]]

\* data[b, kk] += ph
Added(d, b, kk, ph) ==
    IF << b, kk >> \in DOMAIN d
    THEN [d EXCEPT ![<< b, kk >>] = @ (+) SetToBag({ph})]
    ELSE d @@ (<< b, kk >> :> SetToBag({ph}))

part_enabled_all(cfg, part) == TRUE

\* if config[part]:
part_enabled(cfg, part) == cfg[part]

\* lines 107-224: the body of the loop for pulse kk from part number p on:
\* the matrix after it, and the exception that ended it if one did
RECURSIVE PulseFrom(_, _, _, _, _, _, _, _, _, _)
PulseFrom(d, p, cfg, seg, sl, loc, lam, res, n, kk) ==
    IF p > Len(Parts) THEN [data |-> d, err |-> ""]
    ELSE IF ~part_enabled(cfg, Parts[p])
         THEN PulseFrom(d, p + 1, cfg, seg, sl, loc, lam, res, n, kk)
         ELSE LET ret == PartReturn(Parts[p], seg, sl, loc, lam, kk)
                  row == row_of(r_index_of(ret.distances, res), n)
              IN  IF row = -1 THEN [data |-> d, err |-> "IndexError"]
                  ELSE PulseFrom(Added(d, row, kk, ret.PHs), p + 1,
                                 cfg, seg, sl, loc, lam, res, n, kk)

\* config = None, the default of the parameter
None == << >>

\* lines 76-95: config = None stands for every part enabled
ConfigOf(cfg) == IF cfg = None THEN [part \in PartSet |-> TRUE] ELSE cfg

-----------------------------------------------------------------------------
(* simulate_radar as a state machine: one step for lines 48-104, one for    *)
(* each pass of the loop over the pulses, one for the return.               *)

MaxPulses == 2
MaxEnabled == 2

\* a standing figure on the grid, one unit a decimetre
Pose ==
    [key \in KeySet |->
        CASE key = "Base" -> << 0, 0, 0 >>
          [] key = "Neck" -> << 0, 0, 6 >>
          [] key = "Head" -> << 0, 0, 8 >>
          [] key = "Left Shoulder" -> << 0, 2, 6 >>
          [] key = "Right Shoulder" -> << 0, -2, 6 >>
          [] key = "Left Elbow" -> << 0, 2, 2 >>
          [] key = "Right Elbow" -> << 0, -2, 2 >>
          [] key = "Left Hand" -> << 2, 2, 0 >>
          [] key = "Right Hand" -> << 2, -2, 0 >>
          [] key = "Left Hip" -> << 0, 2, 0 >>
          [] key = "Right Hip" -> << 0, -2, 0 >>
          [] key = "Left Knee" -> << 2, 2, -4 >>
          [] key = "Right Knee" -> << 0, -2, -4 >>
          [] key = "Left Ankle" -> << 0, 2, -8 >>
          [] key = "Right Ankle" -> << -2, -2, -8 >>
          [] key = "Left Toe" -> << 2, 2, -8 >>
          [] key = "Right Toe" -> << 0, -2, -8 >>]

\* where the figure stands at a pulse: near the radar or far behind it
BodyPoints == { << 0, 0, 0 >>, << 0, -12, 0 >> }

Trajectories ==
    UNION { { [key \in KeySet |-> [r \in 1..n |-> VAdd(Pose[key], path[r])]] :
                path \in [1..n -> BodyPoints] } : n \in 1..MaxPulses }

RadarSetups ==
    { [loc |-> << 0, 10, 0 >>, res |-> 2], [loc |-> << 0, 10, 0 >>, res |-> 8],
      [loc |-> << 6, 8, 2 >>, res |-> 3] }

Configs ==
    { [part \in PartSet |-> part \in on] :
        on \in { s \in SUBSET PartSet : Cardinality(s) <= MaxEnabled } } \cup {None}

SegIdle ==
    /\ entry = "" /\ forward_motion = FALSE /\ height = 0 /\ rv = 0
    /\ gait_arg = "" /\ fs = 0 /\ duration = 0 /\ nt = 0 /\ numcyc = 0
    /\ gait = "" /\ curves = << >> /\ segments = << >> /\ lengths = << >>
    /\ cur = << 0, 0 >> /\ phase = << >> /\ pc = "idle" /\ err = ""

InitRadar ==
    /\ SegIdle
    /\ DatasetIdle
    /\ segment \in Trajectories
    /\ seglength = LengthsOf(18000)
    /\ lambda_ = 125
    /\ \E s \in RadarSetups : radarloc = s.loc /\ rangeres = s.res
    /\ config \in Configs
    /\ nr = 0 /\ numpl = 0 /\ data = << >> /\ k = 0
    /\ rpc = "simulate_radar" /\ rerr = ""

\* lines 48-104: landmarks and lengths read, config defaulted, data = zeros
SimulateRadarStart ==
    /\ rpc = "simulate_radar"
    /\ config' = ConfigOf(config)
    /\ nr' = nr_of(radarloc, rangeres)
    /\ numpl' = Len(segment["Base"])
    /\ data' = << >>
    /\ k' = 0
    /\ rpc' = IF Len(segment["Base"]) = 0 THEN "return" ELSE "loop"
    /\ UNCHANGED << segment, seglength, lambda_, rangeres, radarloc, rerr >>
    /\ UNCHANGED segvars
    /\ UNCHANGED dsvars

\* lines 106-224: one pass of the loop, every enabled part added
Pulse ==
    /\ rpc = "loop"
    /\ LET out == PulseFrom(data, 1, config, segment, seglength, radarloc,
                            lambda_, rangeres, nr, k)
       IN  /\ out.err = ""
           /\ data' = out.data
    /\ k' = k + 1
    /\ rpc' = IF k + 1 = numpl THEN "return" ELSE "loop"
    /\ UNCHANGED << segment, seglength, lambda_, rangeres, radarloc, config,
                    nr, numpl, rerr >>
    /\ UNCHANGED segvars
    /\ UNCHANGED dsvars

\* lines 106-224: a pass of the loop ended by data[r_index,k] raising
PulseRaise ==
    /\ rpc = "loop"
    /\ LET out == PulseFrom(data, 1, config, segment, seglength, radarloc,
                            lambda_, rangeres, nr, k)
       IN  /\ out.err # ""
           /\ rerr' = out.err
           /\ data' = out.data
    /\ rpc' = "raised"
    /\ UNCHANGED << segment, seglength, lambda_, rangeres, radarloc, config,
                    nr, numpl, k >>
    /\ UNCHANGED segvars
    /\ UNCHANGED dsvars

\* line 226: return data
ReturnData ==
    /\ rpc = "return"
    /\ rpc' = "returned"
    /\ UNCHANGED << segment, seglength, lambda_, rangeres, radarloc, config,
                    nr, numpl, data, k, rerr >>
    /\ UNCHANGED segvars
    /\ UNCHANGED dsvars

NextRadar == SimulateRadarStart \/ Pulse \/ PulseRaise \/ ReturnData

SpecRadar == InitRadar /\ [][NextRadar]_vars

-----------------------------------------------------------------------------
(* dataset_generator_tool._single_config_generation: generate_segments,     *)
(* then simulate_radar on what it returned.  The radar works on a grid of   *)
(* even centimetres here; the generator's coordinates are rounded down to   *)
(* it at the call.                                                          *)

ToGrid(x) == 2 * (x \div 200)
OnGrid(seg) ==
    [key \in DOMAIN seg |->
        [r \in 1..Len(seg[key]) |->
            << ToGrid(seg[key][r][1]), ToGrid(seg[key][r][2]), ToGrid(seg[key][r][3]) >>]]

\* example_config.py lines 5-41
legs_only == [part \in PartSet |-> part \in {"Left Foot", "Right Foot"}]
complete_human == [part \in PartSet |-> TRUE]

PipeCalls ==
    [fm : BOOLEAN, h : {12000, 18000}, v : {30, 100, 300}, g : {"", "b"},
     f : {5, 40}, d : {-5, 0, 1, 3}]

PipeSetups ==
    { [loc |-> << 0, 1000, 0 >>, res |-> 1], [loc |-> << 0, 1000, 0 >>, res |-> 300],
      [loc |-> << 0, 100, 0 >>, res |-> 100] }

InitPipe ==
    /\ RadarIdle
    /\ DatasetIdle
    /\ entry = "generate_segments"
    /\ \E c \in PipeCalls :
          /\ forward_motion = c.fm /\ height = c.h /\ rv = c.v
          /\ gait_arg = c.g /\ fs = c.f /\ duration = c.d
          /\ gait = c.g
    /\ nt = 0 /\ numcyc = 0
    /\ curves = << >> /\ segments = << >> /\ lengths = << >>
    /\ cur = << 0, 0 >> /\ phase = << >> /\ pc = "generate_segments" /\ err = ""

\* dataset_generator_tool.py lines 47-55: mat = simulate_radar(seg, segl, ...)
SimulateRadarCall ==
    /\ pc = "returned"
    /\ rpc = "idle"
    /\ segment' = OnGrid(segments)
    /\ seglength' = lengths
    /\ lambda_' = 125
    /\ \E s \in PipeSetups : radarloc' = s.loc /\ rangeres' = s.res
    /\ config' \in {legs_only, complete_human}
    /\ rpc' = "simulate_radar"
    /\ UNCHANGED << nr, numpl, data, k, rerr >>
    /\ UNCHANGED segvars
    /\ UNCHANGED dsvars

NextPipe == NextSeg \/ SimulateRadarCall \/ NextRadar

SpecPipe == InitPipe /\ [][NextPipe]_vars

-----------------------------------------------------------------------------
(* Properties of the trajectory generator, checked under SpecSeg.           *)

GaitRank(g) == CASE g = "a" -> 1 [] g = "b" -> 2 [] g = "c" -> 3 [] OTHER -> 0

Generated == pc \in {"replicate", "return", "returned"}

\* C1: when no gait is supplied and 0 < rv <= 3, the gait the generator works
\* with is 'a' exactly for rv < 0.5, 'b' exactly for 0.5 <= rv < 1.3 and 'c'
\* exactly for 1.3 <= rv <= 3; get_gait returns one of the three for every
\* velocity of (0,3] and never a lower class for a higher velocity.
C1_GaitSelection ==
    /\ (Generated /\ gait_arg = "" /\ rv > 0 /\ rv <= 300) =>
          /\ gait \in {"a", "b", "c"}
          /\ gait = "a" <=> rv < 50
          /\ gait = "b" <=> (50 <= rv /\ rv < 130)
          /\ gait = "c" <=> (130 <= rv /\ rv <= 300)
    /\ \A v \in 1..300 : GaitRank(get_gait(v)) >= 1
    /\ \A v \in 1..299 : GaitRank(get_gait(v)) <= GaitRank(get_gait(v + 1))

C1_BoundaryReached == pc = "returned" /\ gait_arg = "" /\ rv = 130 /\ gait = "c"

\* C2: a call with rv <= 0 or rv > 3 never produces trajectories, and where
\* it is rejected the error is InvalidParameter, raised before any computation.
C2_VelocityRejected ==
    (rv <= 0 \/ rv > 300) =>
        /\ ~Generated
        /\ pc = "raised" => (err = "InvalidParameter" /\ phase = << >>)

\* C3: a call of generate_segments with a non-positive height, duration or
\* sample rate never returns, and is rejected before any computation.
C3_NonPositiveRejected ==
    (entry = "generate_segments" /\ (height <= 0 \/ duration <= 0 \/ fs <= 0)) =>
        /\ ~Generated
        /\ pc = "raised" => phase = << >>

ValidCall == rv > 0 /\ rv <= 300 /\ height > 0 /\ duration > 0 /\ fs > 0

\* C4: for valid inputs the nt that generate_segments hands to
\* _generate_segments is even and positive.
C4_EvenPositive ==
    (entry = "generate_segments" /\ pc = "_generate_segments" /\ ValidCall) =>
        (nt % 2 = 0 /\ nt > 0)

BaseX(r) == segments["Base"][r][1]

\* C10 as stated: Base x is non-decreasing within each cycle and grows by
\* exactly rlc from the last sample of a cycle to the first of the next.
C10_StepAtBoundary ==
    (pc = "returned" /\ forward_motion) =>
        \A c \in 0..(numcyc - 1) :
            /\ \A j \in 1..(nt - 1) : BaseX(c * nt + j) <= BaseX(c * nt + j + 1)
            /\ c >= 1 => BaseX(c * nt + 1) - BaseX(c * nt) = rlc_of(rv)

\* C10: with forward motion, Base x at sample j of cycle i+1 is exactly rlc
\* greater than at sample j of cycle i, for every j and every pair of
\* consecutive cycles; with the gait auto-selected, Base x is non-decreasing
\* from sample to sample within each cycle.
C10_CycleAdvance ==
    (pc = "returned" /\ forward_motion) =>
        /\ \A r \in 1..(Len(segments["Base"]) - nt) :
              BaseX(r + nt) = BaseX(r) + rlc_of(rv)
        /\ gait_arg = "" =>
              \A c \in 0..(numcyc - 1) :
                  \A j \in 1..(nt - 1) : BaseX(c * nt + j) <= BaseX(c * nt + j + 1)

C10_ThreeCycles ==
    pc = "returned" /\ forward_motion /\ gait_arg = "" /\ numcyc >= 3 /\ nt >= 4

-----------------------------------------------------------------------------
(* Properties of simulate_radar, checked under SpecRadar.                   *)

Enabled(part) == ConfigOf(config)[part]
EnabledParts == {part \in PartSet : Enabled(part)}
Pulses == 0..(Len(segment["Base"]) - 1)
BinOf(part, kk) == PartBin(part, segment, seglength, radarloc, lambda_, rangeres, kk)
ReturnOf(part, kk) == PartReturn(part, segment, seglength, radarloc, lambda_, kk).PHs

\* n is 2*|loc|/res rounded to the nearest integer, a tie to the even one
IsRounded(n, loc, res) ==
    LET s  == 16 * VDot(loc, loc)
        lo == (2 * n - 1) * res
        hi == (2 * n + 1) * res
    IN  /\ n >= 0
        /\ lo <= 0 \/ lo * lo <= s
        /\ s <= hi * hi
        /\ (lo * lo = s \/ hi * hi = s) => n % 2 = 0

OutOfRange(kk) ==
    \E part \in EnabledParts : BinOf(part, kk) >= nr_of(radarloc, rangeres)

\* C5: once a pulse has been processed no enabled part had a bin beyond the
\* matrix at it, so a run with such a bin never returns a matrix; the run
\* that meets one ends in IndexError at that pulse.
C5_IndexError ==
    /\ rpc = "loop" => \A kk \in 0..(k - 1) : ~OutOfRange(kk)
    /\ rpc \in {"return", "returned"} => \A kk \in Pulses : ~OutOfRange(kk)
    /\ rpc = "raised" => (rerr = "IndexError" /\ OutOfRange(k))

C5_RaisedAtSecondPulse == rpc = "raised" /\ rerr = "IndexError" /\ k = 1

\* the sum of the returns of the enabled parts whose bin at pulse kk is b
SumAtBin(b, kk) ==
    LET here == {part \in EnabledParts : BinOf(part, kk) = b}
    IN  [ph \in {ReturnOf(part, kk) : part \in here} |->
            Cardinality({part \in here : ReturnOf(part, kk) = ph})]

\* the matrix simulate_radar builds with only the given part enabled
RECURSIVE SinglePartMatrix(_, _, _)
SinglePartMatrix(part, d, kk) ==
    IF kk >= Len(segment["Base"]) THEN d
    ELSE SinglePartMatrix(part,
            PulseFrom(d, 1, [q \in PartSet |-> q = part], segment, seglength,
                      radarloc, lambda_, rangeres, nr, kk).data,
            kk + 1)

\* the entrywise sum of the single-part matrices, taken from the last part
\* to the first
RECURSIVE SumOfSingles(_, _, _)
SumOfSingles(p, b, kk) ==
    IF p = 0 THEN EmptyBag
    ELSE (IF Enabled(Parts[p]) THEN Entry(SinglePartMatrix(Parts[p], << >>, 0), b, kk)
          ELSE EmptyBag) (+) SumOfSingles(p - 1, b, kk)

\* C6: in the returned matrix every entry [b,k] is the sum of the returns of
\* exactly the enabled parts whose bin at pulse k is b, and the matrix is the
\* entrywise sum of the single-part matrices in whatever order they are added.
C6_Accumulation ==
    rpc = "returned" =>
        /\ DOMAIN data \subseteq (0..(nr - 1)) \X (0..(numpl - 1))
        /\ \A b \in 0..(nr - 1) : \A kk \in 0..(numpl - 1) :
              /\ Entry(data, b, kk) = SumAtBin(b, kk)
              /\ Entry(data, b, kk) = SumOfSingles(Len(Parts), b, kk)

C6_TwoPartsInOneBin ==
    /\ rpc = "returned"
    /\ \E c \in DOMAIN data : BagCardinality(data[c]) >= 2

NoneEnabled == EnabledParts = {}

\* C7: with every part disabled the returned matrix has no non-zero entry,
\* round(2*|radarloc|/rangeres) rows and one column per trajectory sample.
C7_AllDisabled ==
    (rpc = "returned" /\ NoneEnabled) =>
        /\ \A b \in 0..(nr - 1) : \A kk \in 0..(numpl - 1) : Entry(data, b, kk) = EmptyBag
        /\ DOMAIN data = {}
        /\ IsRounded(nr, radarloc, rangeres)
        /\ numpl = Len(segment["Base"])

C7_TwoPulsesAllDisabled == rpc = "returned" /\ NoneEnabled /\ numpl = 2 /\ nr = 7

\* the length category a part belongs to
OwnLength(part, sl) ==
    IF part \in {"Left Upper Arm", "Right Upper Arm"} THEN sl["Upper Arm Length"]
    ELSE PartLength(part, sl)

OwnReturn(part, kk) ==
    compute_ph(PartAspect(part, segment, kk + 1), PartPosition(part, segment, kk + 1),
               << PartRadius(part), PartRadius(part), OwnLength(part, seglength) >>,
               radarloc, lambda_).PHs

\* C8 as stated: with exactly one part enabled, column k of the returned
\* matrix holds, at the part's bin, the compute_ph value for the part's
\* aspect vector, centroid and own ellipsoid, and zero in every other bin.
C8_SinglePart ==
    (rpc = "returned" /\ Cardinality(EnabledParts) = 1) =>
        \A part \in EnabledParts : \A kk \in 0..(numpl - 1) : \A b \in 0..(nr - 1) :
            Entry(data, b, kk) = IF b = BinOf(part, kk)
                                 THEN SetToBag({OwnReturn(part, kk)})
                                 ELSE EmptyBag

\* with exactly one part enabled, column k holds the value compute_ph
\* returned to the loop at the part's bin and zero elsewhere
SinglePartAsComputed ==
    (rpc = "returned" /\ Cardinality(EnabledParts) = 1) =>
        \A part \in EnabledParts : \A kk \in 0..(numpl - 1) : \A b \in 0..(nr - 1) :
            Entry(data, b, kk) = IF b = BinOf(part, kk)
                                 THEN SetToBag({ReturnOf(part, kk)})
                                 ELSE EmptyBag

-----------------------------------------------------------------------------
(* Properties of the two together, checked under SpecPipe.                  *)

\* C9: the matrix simulate_radar allocates for trajectories returned by
\* generate_segments with numcyc >= 1 has round(2*|radarloc|/rangeres) rows
\* and nt*numcyc columns, and each of the 17 landmarks has nt*numcyc samples.
C9_Shape ==
    /\ (pc = "returned" /\ numcyc >= 1) =>
          /\ Cardinality(DOMAIN segments) = 17
          /\ \A key \in DOMAIN segments : Len(segments[key]) = nt * numcyc
    /\ rpc \in {"loop", "return", "returned", "raised"} =>
          /\ IsRounded(nr, radarloc, rangeres)
          /\ numcyc >= 1 =>
                /\ numpl = nt * numcyc
                /\ \A key \in KeySet : Len(segment[key]) = nt * numcyc
          /\ DOMAIN data \subseteq (0..(nr - 1)) \X (0..(numpl - 1))

C9_ThreeCyclesSimulated ==
    rpc = "returned" /\ numcyc >= 3 /\ numpl = nt * numcyc /\ nr = 7

-----------------------------------------------------------------------------
(* Forward motion, replication and the kinematic chain, under SpecSeg.      *)

\* what was added to the x coordinate of a landmark at sample j of the first
\* cycle on top of its chain position and the translation
ForwardAdded(key, j) ==
    segments[key][j + 1][1]
        - VAdd(ChainPos(curves, height, nt, key, j), Translation(gait, rv, nt, j))[1]

\* C11 as stated: with forward motion the offset added to each of the 17
\* landmarks at sample j of the cycle is j*rlc/nt (to the unit of length).
C11_StepIsRlcOverNt ==
    (Generated /\ forward_motion) =>
        \A key \in KeySet : \A j \in 0..(nt - 1) :
            Abs(ForwardAdded(key, j) - (j * rlc_of(rv)) \div nt) <= 1

\* with forward motion every landmark receives the same offset at a sample,
\* growing from 0 to rlc - rlc/(nt+1) over the nt samples
SameOffsetEveryLandmark ==
    (Generated /\ forward_motion) =>
        \A key \in KeySet : \A j \in 0..(nt - 1) :
            /\ ForwardAdded(key, j) = ForwardAdded("Base", j)
            /\ j = 0 => ForwardAdded(key, j) = 0
            /\ j = nt - 1 =>
                  Abs(ForwardAdded(key, j) - (rlc_of(rv) - rlc_of(rv) \div (nt + 1))) <= 1

-----------------------------------------------------------------------------
(* The round-trip scenario: height 1.7, rv 1.0, fs 100 Hz, 5 s, radar at    *)
(* (0,10,0) m, range resolution 0.01 m, every part enabled; next to it a    *)
(* call of no duration, one of a sample rate too low for a single sample    *)
(* per cycle, and a radar half a metre from the origin.                     *)

ScenarioCall == [h |-> 17000, v |-> 100, g |-> "", f |-> 1000, d |-> 5]
ScenarioSetup == [loc |-> << 0, 1000, 0 >>, res |-> 1]

ScenarioCalls ==
    { ScenarioCall, [ScenarioCall EXCEPT !.d = 0], [ScenarioCall EXCEPT !.f = 1] }
ScenarioSetups == { ScenarioSetup, [loc |-> << 0, 50, 0 >>, res |-> 1] }

InitScenario ==
    /\ RadarIdle
    /\ DatasetIdle
    /\ entry = "generate_segments"
    /\ forward_motion = TRUE            \* the default of generate_segments
    /\ \E c \in ScenarioCalls :
          /\ height = c.h /\ rv = c.v /\ gait_arg = c.g /\ fs = c.f
          /\ duration = c.d /\ gait = c.g
    /\ nt = 0 /\ numcyc = 0
    /\ curves = << >> /\ segments = << >> /\ lengths = << >>
    /\ cur = << 0, 0 >> /\ phase = << >> /\ pc = "generate_segments" /\ err = ""

\* simulate_radar(seg, segl, lambda_, rangeres, radarloc, complete_human)
ScenarioRadarCall ==
    /\ pc = "returned"
    /\ rpc = "idle"
    /\ segment' = OnGrid(segments)
    /\ seglength' = lengths
    /\ lambda_' = 125
    /\ \E s \in ScenarioSetups : radarloc' = s.loc /\ rangeres' = s.res
    /\ config' = complete_human
    /\ rpc' = "simulate_radar"
    /\ UNCHANGED << nr, numpl, data, k, rerr >>
    /\ UNCHANGED segvars
    /\ UNCHANGED dsvars

NextScenario == NextSeg \/ ScenarioRadarCall \/ NextRadar

SpecScenario == InitScenario /\ [][NextScenario]_vars

InScenario ==
    /\ height = ScenarioCall.h /\ rv = ScenarioCall.v /\ gait_arg = ScenarioCall.g
    /\ fs = ScenarioCall.f /\ duration = ScenarioCall.d

\* C12: in the scenario neither function raises, the gait selected is 'b',
\* the matrix has 2000 rows and nt*numcyc columns, and every bin of every
\* part at every pulse processed lies in 0..1999.
C12_Scenario ==
    InScenario =>
        /\ pc # "raised"
        /\ Generated => gait = "b"
        /\ (rpc # "idle" /\ radarloc = ScenarioSetup.loc /\ rangeres = ScenarioSetup.res) =>
              /\ rpc # "raised"
              /\ rpc \in {"loop", "return", "returned"} =>
                    /\ nr = 2000
                    /\ numpl = nt * numcyc
                    /\ numpl > 0
                    /\ \A c \in DOMAIN data : c[1] \in 0..1999 /\ c[2] \in 0..(numpl - 1)
                    /\ \A kk \in (IF k > 0 THEN {k - 1} ELSE {}) : \A part \in PartSet :
                          BinOf(part, kk) \in 0..1999
              /\ rpc = "returned" =>
                    \A kk \in 0..(numpl - 1) : \E b \in 0..1999 : << b, kk >> \in DOMAIN data

C12_ScenarioUnderWay ==
    /\ InScenario /\ radarloc = ScenarioSetup.loc /\ rangeres = ScenarioSetup.res
    /\ forward_motion /\ gait = "b" /\ nt = 162 /\ numcyc = 4
    /\ rpc = "loop" /\ k = 10 /\ numpl = 648 /\ nr = 2000

-----------------------------------------------------------------------------
(* The control points of the interpolated joint-angle curves (abscissae in  *)
(* 1e-4 of a cycle as above, ordinates in 0.01 degree) and what the         *)
(* interpolant at a phase is computed from.                                 *)

hip_y(g, v) ==      \* lines 230-250
    IF g = "a" THEN << 50 * v, -30 * v, 50 * v >>
    ELSE IF g = "b" THEN << 2500, -1500, 2500 >>
    ELSE << (500 * (v - 130)) \div 170 + 2500, -1500, (600 * (v - 130)) \div 170 + 2500 >>
knee_y(g, v) ==     \* lines 267-293
    IF g = "a" THEN << 300, 300, 140 * v, 300 >>
    ELSE IF g = "b" THEN << 300, 300, 7000, 300 >>
    ELSE << (2200 * (v - 130)) \div 170 + 300, 300,
            7000 - (500 * (v - 130)) \div 170, (300 * (v - 130)) \div 170 + 300 >>
ankle_y(g, v) ==    \* lines 306-338
    IF g = "a" THEN << -300, -30 * v - 300, 22 * v - 300, -34 * v - 300, -300 >>
    ELSE IF g = "b" THEN << -300, -1800, 800, -2000, -300 >>
    ELSE << (500 * (v - 130)) \div 170 - 300, (400 * (v - 130)) \div 170 - 1800,
            800 - (300 * (v - 130)) \div 170, -((800 * (v - 130)) \div 170) - 2000,
            (500 * (v - 130)) \div 170 - 300 >>
thorax_y(v) ==      \* lines 356-359
    << (4 * v) \div 3, -((3 * v) \div 2), -((4 * v) \div 3), (3 * v) \div 2 >>
elbow_y(g, v) ==    \* lines 378-398; line 398 reads (rv-.13)
    IF g = "a" THEN << 6 * v + 300, 34 * v + 300, 10 * v + 300 >>
    ELSE IF g = "b" THEN << (800 * (v - 50)) \div 80 + 600, (2400 * (v - 50)) \div 80 + 2000,
                            (900 * (v - 50)) \div 80 + 800 >>
    ELSE << 1400 - (600 * (v - 130)) \div 170, (2600 * (v - 130)) \div 170 + 4400,
            1700 - (600 * (v - 13)) \div 170 >>

ControlPoints(xs, ys) == [j \in 1..Len(xs) |-> << xs[j], ys[j] >>]
ShiftedPoints(ps, d) == [j \in 1..Len(ps) |-> << ps[j][1] + d, ps[j][2] >>]

TiledWithoutNextCycle(ps) == ShiftedPoints(ps, -10000) \o ps

\* x = [x-1, x, x+1]; y = [y, y, y]  (lines 295-296, 339-340, 360-361, 399-400)
TiledPoints(ps) == ShiftedPoints(ps, -10000) \o ps \o ShiftedPoints(ps, 10000)

\* lines 252-257: the hip's points
hip_points(g, v) ==
    LET ps == ControlPoints(hip_x(g, v), hip_y(g, v))
    IN  IF ps[1][1] + 10000 = ps[3][1]
        THEN << << ps[1][1] - 10000, ps[1][2] >>, << ps[2][1] - 10000, ps[2][2] >>,
                ps[1], ps[2], ps[3],
                << ps[2][1] + 10000, ps[2][2] >>, << ps[3][1] + 10000, ps[3][2] >> >>
        ELSE TiledPoints(ps)

InterpolatedCurves == {"flexhip", "flexknee", "flexankle", "motthor", "flexelbow"}

\* the points handed to PchipInterpolator for a curve (lines 259-402)
PchipPoints(c, g, v) ==
    CASE c = "flexhip" -> hip_points(g, v)
      [] c = "flexknee" -> TiledPoints(ControlPoints(knee_x(g, v), knee_y(g, v)))
      [] c = "flexankle" -> TiledPoints(ControlPoints(ankle_x(g, v), ankle_y(g, v)))
      [] c = "motthor" -> TiledPoints(ControlPoints(thorax_x, thorax_y(v)))
      [] c = "flexelbow" -> TiledPoints(ControlPoints(elbow_x(g, v), elbow_y(g, v)))

\* the interval PchipInterpolator evaluates phase ph in: the last one that
\* starts at or before ph, an end interval outside the points
PchipInterval(ps, ph) ==
    LET at == {j \in 1..(Len(ps) - 1) : ps[j][1] <= ph}
    IN  IF at = {} THEN 1 ELSE CHOOSE j \in at : \A j2 \in at : j2 <= j

\* what the derivative PCHIP assigns to point j is computed from: at an
\* interior point the two adjacent interval lengths and slopes (their
\* weighted harmonic mean, 0 when the slopes differ in sign), at an end point
\* a one-sided three-point estimate
PchipKnot(ps, j) ==
    IF j = 1 \/ j = Len(ps) THEN << "end", j >>
    ELSE << "interior", ps[j][1] - ps[j - 1][1], ps[j + 1][1] - ps[j][1],
            ps[j][2] - ps[j - 1][2], ps[j + 1][2] - ps[j][2] >>

\* what the value and the first derivative of the interpolant at phase ph
\* are computed from: the cubic Hermite piece of the interval, given by its
\* end points relative to ph, their ordinates and their derivatives
PchipAt(ps, ph) ==
    LET j == PchipInterval(ps, ph)
    IN  [left |-> ps[j][1] - ph, right |-> ps[j + 1][1] - ph,
         yleft |-> ps[j][2], yright |-> ps[j + 1][2],
         dleft |-> PchipKnot(ps, j), dright |-> PchipKnot(ps, j + 1)]

\* velocities across the three classes, with the class boundaries, the hip's
\* x1 changing sign (2.15, 2.16) and the largest the class-C tables accept
VelocityGrid == {1, 10, 30, 49, 50, 51, 100, 129, 130, 131, 200, 215, 216, 300, 400}

Periodic(c, g, v) ==
    PchipAt(PchipPoints(c, g, v), 0) = PchipAt(PchipPoints(c, g, v), 10000)

\* C13: each interpolated curve (hip, knee, ankle, thorax, elbow) has the same
\* value and first derivative at phase 0 and at phase 1: both are computed
\* from the same Hermite piece, one the copy of the other a cycle later, for
\* the gait and velocity of every generated trajectory and, checked where a
\* trajectory is returned, for every gait and velocity of the grid that the
\* interpolator accepts.
C13_Periodic ==
    /\ Generated => \A c \in InterpolatedCurves : Periodic(c, gait, rv)
    /\ pc = "returned" =>
          \A g \in {"a", "b", "c"} : \A v \in VelocityGrid :
             pchip_accepts(g, v) => \A c \in InterpolatedCurves : Periodic(c, g, v)

\* a trajectory of class 'c' at rv = 1.3, where the hip's tiled points x1+1
\* and x3 coincide and are merged
C13_HipMerged ==
    /\ pc = "returned" /\ gait = "c" /\ rv = 130
    /\ Len(hip_points(gait, rv)) = 7
    /\ Len(PchipPoints("flexknee", gait, rv)) = 12

-----------------------------------------------------------------------------
(* Cycle replication, under SpecSeg.                                        *)

CyclesBuilt(key) == Len(segments[key]) \div nt

\* C14: in every landmark's trajectory, sample c*nt + j is sample j of the
\* first cycle with c*rlc added to x when forward motion is on and nothing
\* added when it is off, y and z unchanged; this holds for the cycles built
\* so far at every pass of the replication loop and, when numcyc >= 1, for
\* all numcyc cycles of every landmark at the return.
C14_CycleReplication ==
    (Generated /\ nt > 0) =>
        \A key \in KeySet :
            /\ Len(segments[key]) = CyclesBuilt(key) * nt
            /\ (pc \in {"return", "returned"} /\ numcyc >= 1) =>
                  CyclesBuilt(key) = numcyc
            /\ \A c \in 0..(CyclesBuilt(key) - 1) : \A j \in 1..nt :
                  segments[key][c * nt + j] =
                      << segments[key][j][1] +
                             (IF forward_motion THEN c * rlc_of(rv) ELSE 0),
                         segments[key][j][2], segments[key][j][3] >>

\* the loop has built all three cycles of Base and is appending the third
\* cycle of Neck, with forward motion on
C14_ThirdCycleUnderWay ==
    /\ pc = "replicate" /\ forward_motion /\ numcyc = 3 /\ nt >= 4
    /\ cur = << 2, 2 >>
    /\ CyclesBuilt("Base") = 3 /\ CyclesBuilt("Neck") = 2
    /\ segments["Base"][2 * nt + 2][1] = segments["Base"][2][1] + 2 * rlc_of(rv)

-----------------------------------------------------------------------------
(* The half-cycle shift between the left and the right leg, under SpecSeg.  *)

LegCurves == {"flexankle", "flexknee", "flexhip"}
HalfCycleLater(i) == (i + nt \div 2) % nt
MirrorY(p) == << p[1], -p[2], p[3] >>

\* C15: for even nt the left-side angle at sample i is the right-side angle
\* at sample (i + nt/2) mod nt for the ankle, knee and hip curves; the shift
\* is a permutation of the samples (none dropped, duplicated or left over),
\* so that the left leg's knee, ankle and toe at sample i, as they stand
\* after the hip flexing, mirror the right leg's half a cycle later.
C15_HalfCycleShift ==
    (Generated /\ nt > 0 /\ nt % 2 = 0) =>
        /\ \A c \in LegCurves : \A i \in 0..(nt - 1) :
              LeftPhase(curves[c], nt, i) = RightPhase(curves[c], nt, HalfCycleLater(i))
        /\ {HalfCycleLater(i) : i \in 0..(nt - 1)} = 0..(nt - 1)
        /\ \A i \in 0..(nt - 1) :
              /\ KneeHip(curves, height, nt, "Left", i) =
                     MirrorY(KneeHip(curves, height, nt, "Right", HalfCycleLater(i)))
              /\ AnkleHip(curves, height, nt, "Left", i) =
                     MirrorY(AnkleHip(curves, height, nt, "Right", HalfCycleLater(i)))
              /\ ToeHip(curves, height, nt, "Left", i) =
                     MirrorY(ToeHip(curves, height, nt, "Right", HalfCycleLater(i)))

\* a returned trajectory of six samples whose leg curves differ between the
\* two halves of the cycle
C15_ShiftedHalves ==
    /\ pc = "returned" /\ nt = 6
    /\ \A c \in LegCurves : curves[c][0] # curves[c][3] /\ curves[c][4] # curves[c][1]
    /\ KneeHip(curves, height, nt, "Left", 4) # MirrorY(KneeHip(curves, height, nt, "Right", 4))

-----------------------------------------------------------------------------
(* The arms after the rotation of the upper body, under SpecSeg.            *)

Dist2(p, q) ==
    (p[1] - q[1]) * (p[1] - q[1]) + (p[2] - q[2]) * (p[2] - q[2])
        + (p[3] - q[3]) * (p[3] - q[3])
Landmark(key, i) == segments[key][i + 1]
Sides == {"Left", "Right"}

\* C16 as stated: for every sample i the elbows and hands are the spine
\* rotation of sample i applied to their own position of sample i, so that
\* the shoulder-elbow distance is the upper-arm length and the elbow-hand
\* distance is the lower-arm length at every sample.
C16_ArmLengthsKept ==
    (Generated /\ nt > 0) =>
        \A side \in Sides : \A i \in 0..(nt - 1) :
            /\ ElbowSpine(curves, height, nt, side, i) =
                   Dot(SpineRot(curves, i), ElbowShoulder(curves, height, nt, side, i))
            /\ Dist2(Landmark(side \o " Shoulder", i), Landmark(side \o " Elbow", i))
                   = upperarmlen(height) * upperarmlen(height)
            /\ Dist2(Landmark(side \o " Elbow", i), Landmark(side \o " Hand", i))
                   = lowerarmlen(height) * lowerarmlen(height)

-----------------------------------------------------------------------------
(* The position and the ellipsoid of each part, under SpecRadar.            *)

TerminalParts == {"Head", "Left Foot", "Right Foot"}

\* the two landmarks that bound a part
Bounding(part) ==
    CASE part = "Head" -> << "Head", "Neck" >>
      [] part = "Torso" -> << "Neck", "Base" >>
      [] part = "Left Shoulder" -> << "Left Shoulder", "Neck" >>
      [] part = "Right Shoulder" -> << "Right Shoulder", "Neck" >>
      [] part = "Left Upper Arm" -> << "Left Shoulder", "Left Elbow" >>
      [] part = "Right Upper Arm" -> << "Right Shoulder", "Right Elbow" >>
      [] part = "Left Lower Arm" -> << "Left Elbow", "Left Hand" >>
      [] part = "Right Lower Arm" -> << "Right Elbow", "Right Hand" >>
      [] part = "Left Hip" -> << "Left Hip", "Base" >>
      [] part = "Right Hip" -> << "Right Hip", "Base" >>
      [] part = "Left Upper Leg" -> << "Left Knee", "Left Hip" >>
      [] part = "Right Upper Leg" -> << "Right Knee", "Right Hip" >>
      [] part = "Left Lower Leg" -> << "Left Ankle", "Left Knee" >>
      [] part = "Right Lower Leg" -> << "Right Ankle", "Right Knee" >>
      [] part = "Left Foot" -> << "Left Toe", "Left Ankle" >>
      [] part = "Right Foot" -> << "Right Toe", "Right Ankle" >>

Midpoint(part, r) ==
    VHalf(VAdd(segment[Bounding(part)[1]][r], segment[Bounding(part)[2]][r]))

\* C17 as stated: for every enabled part and every pulse of a returned
\* matrix, the position passed to compute_ph is the midpoint of the part's
\* two bounding landmarks, a single landmark only for the head and the feet;
\* the lower arm's is the midpoint of elbow and hand.
C17_Centroids ==
    rpc = "returned" =>
        \A part \in EnabledParts : \A kk \in 0..(numpl - 1) :
            /\ part \notin TerminalParts =>
                  PartPosition(part, segment, kk + 1) = Midpoint(part, kk + 1)
            /\ part \in TerminalParts =>
                  PartPosition(part, segment, kk + 1) = segment[Bounding(part)[1]][kk + 1]
            /\ (part \notin TerminalParts) =>
                  BagIn(compute_ph(PartAspect(part, segment, kk + 1), Midpoint(part, kk + 1),
                                   PartEllipsoid(part, seglength), radarloc, lambda_).PHs,
                        Entry(data, BinOf(part, kk), kk))

-----------------------------------------------------------------------------
(* The rotation matrix, under SpecSeg.                                      *)

QuarterTurns == -1..4

RzRyRx(psi, theta, phi) == MatMul(Rz(phi), MatMul(Ry(theta), Rx(psi)))

\* C18: XYZConvention(psi, theta, phi) is the product Rz(phi)*(Ry(theta)*
\* Rx(psi)) of the docstring's elementary rotations, entry by entry: for the
\* pelvis and spine angles of every sample of every generated trajectory
\* and, checked where a trajectory is returned, for every triple of
\* multiples of 90 degrees.
C18_YawPitchRoll ==
    /\ (Generated /\ nt > 0) =>
          \A i \in 0..(nt - 1) :
              /\ PelvisRot(curves, i) = RzRyRx(-curves.rotleftright[i], 0, curves.torrot[i])
              /\ SpineRot(curves, i) = RzRyRx(0, curves.rotforback[i], curves.motthor[i])
    /\ pc = "returned" =>
          \A psi \in QuarterTurns : \A theta \in QuarterTurns : \A phi \in QuarterTurns :
              XYZConvention(psi, theta, phi) = RzRyRx(psi, theta, phi)

\* a returned trajectory with a sample whose pelvis rotation has a roll and
\* a yaw that do not commute, and one whose spine rotation has a pitch and
\* a yaw that do not
C18_OrderMatters ==
    /\ pc = "returned" /\ nt >= 4
    /\ \E i \in 0..(nt - 1) :
          PelvisRot(curves, i) #
              MatMul(Rx(-curves.rotleftright[i]), Rz(curves.torrot[i]))
    /\ \E i \in 0..(nt - 1) :
          SpineRot(curves, i) #
              MatMul(Ry(curves.rotforback[i]), Rz(curves.motthor[i]))

\* C19 as stated: the long semi-axis of each enabled part's ellipsoid is half
\* of the part's own entry of the segment-length map, the upper arms' half of
\* 'Upper Arm Length', and the return added to the matrix at each pulse is
\* the one of that ellipsoid.
C19_OwnSemiAxis ==
    rpc \in {"loop", "return", "returned"} =>
        \A part \in EnabledParts :
            /\ PartEllipsoid(part, seglength)[3] = OwnLength(part, seglength)
            /\ \A kk \in 0..(k - 1) :
                  BagIn(OwnReturn(part, kk), Entry(data, BinOf(part, kk), kk))

-----------------------------------------------------------------------------
(* The gait tables at the class boundaries, under SpecSeg.                  *)

\* lines 198-201: the amplitude of the forward/backward rotation of the
\* pelvis, in 0.01 degree
a1_of(g, v) == IF g = "a" THEN (800 * v * (100 - v)) \div 10000 ELSE 200

\* the control points of a curve as its gait branch sets them (lines 230-250,
\* 267-293, 306-338, 378-398)
TablePoints(c, g, v) ==
    CASE c = "flexhip" -> ControlPoints(hip_x(g, v), hip_y(g, v))
      [] c = "flexknee" -> ControlPoints(knee_x(g, v), knee_y(g, v))
      [] c = "flexankle" -> ControlPoints(ankle_x(g, v), ankle_y(g, v))
      [] c = "flexelbow" -> ControlPoints(elbow_x(g, v), elbow_y(g, v))

GaitCurves == {"flexhip", "flexknee", "flexankle", "flexelbow"}

\* C20 as stated: a trajectory generated with class C at rv = 1.3 has the
\* control points class B has at rv = 1.3, and one generated with class A at
\* rv = 0.5 has the control points and the amplitudes al, aa and a1 class B
\* has at rv = 0.5.
C20_TablesAgree ==
    Generated =>
        /\ (rv = 130 /\ gait = "c") =>
              \A c \in GaitCurves : TablePoints(c, "c", rv) = TablePoints(c, "b", rv)
        /\ (rv = 50 /\ gait = "a") =>
              /\ \A c \in GaitCurves : TablePoints(c, "a", rv) = TablePoints(c, "b", rv)
              /\ al_of("a", rv) = al_of("b", rv)
              /\ aa_of("a", rv) = aa_of("b", rv)
              /\ a1_of("a", rv) = a1_of("b", rv)

-----------------------------------------------------------------------------
(* The number of samples of each curve, under SpecSeg.                      *)

SliceLenInclusive(lo, hi, n) ==
    LET a == IF lo > n THEN n ELSE lo
        b == IF hi > n THEN n ELSE hi
    IN  IF b + 1 > a THEN b + 1 - a ELSE 0

\* the length of a[lo:hi] for an array a of n elements, 0 <= lo, 0 <= hi
SliceLen(lo, hi, n) ==
    LET a == IF lo > n THEN n ELSE lo
        b == IF hi > n THEN n ELSE hi
    IN  IF b > a THEN b - a ELSE 0

\* round(nt*0.15), round(nt*0.50), round(nt*0.65) (lines 210-213)
CutAt(n, percent) == RoundHalfEven(n * percent, 100)

\* lines 151-152: t = np.linspace(0, 1.0-dt, nt); t3 = np.linspace(-1.0, 2.0-dt, nt*3)
t_len(n) == n
t3_len(n) == n * 3

\* lines 210-214: rotleftright = np.concatenate([temp1, temp2, temp3, temp4]),
\* each a function of a slice of t
rotleftright_len(n) ==
    SliceLen(0, CutAt(n, 15), t_len(n))
        + SliceLen(CutAt(n, 15), CutAt(n, 50), t_len(n))
        + SliceLen(CutAt(n, 50), CutAt(n, 65), t_len(n))
        + SliceLen(CutAt(n, 65), n, t_len(n))

\* the number of samples of each curve: the interpolated ones are
\* int_obj(t3)[nt:2*nt] (lines 260-261, 299-300, 343-344, 364-365, 403-404),
\* rotforback, torrot and flexshoulder are functions of t (lines 202, 222, 371)
CurveLen(name, n) ==
    IF name \in InterpolatedCurves THEN SliceLen(n, 2 * n, t3_len(n))
    ELSE IF name = "rotleftright" THEN rotleftright_len(n)
    ELSE t_len(n)

\* the even sample counts the lengths are also checked for
SampleCounts == {n \in 2..64 : n % 2 = 0}

\* C21: for every even nt >= 2 every curve of _generate_segments has exactly
\* nt samples, the stitched pelvis rotation and the middle third of each
\* interpolated curve included, so that the segment builder's indices
\* 0..nt-1 are the curve's indices: for the nt of every generated trajectory
\* and, checked where a trajectory is returned, for every even nt up to 64.
C21_CurveLengths ==
    /\ (Generated /\ nt >= 2 /\ nt % 2 = 0) =>
          \A name \in CurveNames :
              /\ CurveLen(name, nt) = nt
              /\ DOMAIN curves[name] = 0..(CurveLen(name, nt) - 1)
    /\ pc = "returned" =>
          \A n \in SampleCounts : \A name \in CurveNames : CurveLen(name, n) = n

\* a returned trajectory of six samples per cycle: the pelvis rotation is
\* stitched from pieces of 1, 2, 1 and 2 samples
C21_FourPieces ==
    /\ pc = "returned" /\ nt = 6
    /\ << CutAt(nt, 15), CutAt(nt, 50), CutAt(nt, 65) >> = << 1, 3, 4 >>
    /\ DOMAIN curves.rotleftright = 0..5

-----------------------------------------------------------------------------
(* dataset_generator_tool.generate as a state machine: one step for lines   *)
(* 73-113, one for the start of the pool, one for its end, and for each     *)
(* worker (_single_config_generation, one per configuration, run in          *)
(* parallel) one step for the file test of line 41, one for the pipeline of *)
(* lines 44-62 and one for the write of lines 64-68.                        *)

MaxSamples == 4
NumConfigs == {1, 2, 3}

\* the settings a configuration hands to the pipeline (example_config.py
\* lines 43-55: fs = 100, duration = 11, height up to 1.8)
DatasetConfig == [fs |-> 1000, duration |-> 11, height |-> 18000]

offsets_all_zero(n, kc) == [j \in 1..kc |-> 0]

\* lines 79-88: new_count = int(n_samples/num_configs) for all but the last
\* configuration, which takes the rest
counts_of(n, kc) ==
    [j \in 1..kc |-> IF j < kc THEN n \div kc ELSE n - (kc - 1) * (n \div kc)]
offsets_of(n, kc) == [j \in 1..kc |-> (j - 1) * (n \div kc)]

\* file names of ddir
SampleFile(idx) == << "sample", idx + 1 >>          \* 'sample' + str(sample_idx+1) + '.npy'
ConfigFile(cf_idx) == << "dataset_configuration_", cf_idx >>
SingleConfigFile == << "dataset_configuration", 0 >>
DataframeFile == << "dataframe", 0 >>

\* who wrote: the file was there before the call, generate itself, or the
\* worker of configuration cf_idx
Before == << "before", 0 >>
ByGenerate == << "generate", 0 >>
ByWorker(cf_idx) == << "worker", cf_idx >>

\* open(name, 'w' or 'wb') and a write by `who`
Written(f, name, who) ==
    IF name \in DOMAIN f THEN [f EXCEPT ![name] = Append(@, who)]
    ELSE f @@ (name :> << who >>)

file_exists_never(f, idx) == FALSE

\* line 41: os.path.isfile(ddir + '/sample' + str(sample_idx+1) + '.npy')
file_exists(f, idx) == SampleFile(idx) \in DOMAIN f

\* lines 47-55: the exception generate_segments ends in for a sample of
\* velocity v, "" if the pipeline produces a matrix
pipeline_error(v) ==
    LET c == DatasetConfig
    IN  IF timing_error(v, c.height, c.fs, c.duration) # ""
        THEN timing_error(v, c.height, c.fs, c.duration)
        ELSE inner_error(nt_of(v, c.height, c.fs, c.duration), v, "")

Workers == DOMAIN worker

InitDataset ==
    /\ SegIdle /\ RadarIdle
    /\ config_set \in {[list |-> TRUE, n |-> kc] : kc \in NumConfigs}
                          \cup {[list |-> FALSE, n |-> 1]}
    /\ n_samples \in 0..MaxSamples
    /\ rvs \in {s \in [1..n_samples -> {0, 100}] :
                   Cardinality({j \in 1..n_samples : s[j] = 0}) <= 1}
    /\ \E present \in SUBSET (0..(n_samples - 1)) :
          files = [name \in {SampleFile(idx) : idx \in present} |-> << Before >>]
    /\ config_counts = << >> /\ config_offsets = << >> /\ worker = << >>
    /\ gpc = "generate" /\ gerr = ""

\* lines 73-113
GenerateStart ==
    /\ gpc = "generate"
    /\ IF config_set.list
       THEN /\ config_counts' = counts_of(n_samples, config_set.n)
            /\ config_offsets' = offsets_of(n_samples, config_set.n)
            /\ files' = files @@ [name \in {ConfigFile(c) : c \in 0..(config_set.n - 1)}
                                     |-> << ByGenerate >>]
       ELSE /\ UNCHANGED << config_counts, config_offsets >>
            /\ files' = Written(files, SingleConfigFile, ByGenerate)
    /\ gpc' = "pool"
    /\ UNCHANGED << config_set, n_samples, rvs, worker, gerr >>
    /\ UNCHANGED << segvars, radvars >>

\* lines 117-127 with config_counts, config_offsets and num_configs never
\* assigned: the names are local and unbound
GeneratePoolRaise ==
    /\ gpc = "pool"
    /\ ~config_set.list
    /\ gerr' = "UnboundLocalError"
    /\ gpc' = "raised"
    /\ UNCHANGED << config_set, n_samples, rvs, files, config_counts,
                    config_offsets, worker >>
    /\ UNCHANGED << segvars, radvars >>

\* lines 117-127: one call of _single_config_generation per configuration
GeneratePool ==
    /\ gpc = "pool"
    /\ config_set.list
    /\ worker' = [w \in 0..(config_set.n - 1) |->
                     [pc |-> "visit", offset |-> config_offsets[w + 1],
                      count |-> config_counts[w + 1],
                      sample_idx |-> config_offsets[w + 1],
                      df |-> << >>, ran |-> << >>, err |-> ""]]
    /\ gpc' = "starmap"
    /\ UNCHANGED << config_set, n_samples, rvs, files, config_counts,
                    config_offsets, gerr >>
    /\ UNCHANGED << segvars, radvars >>

DatasetFrame ==
    /\ UNCHANGED << config_set, n_samples, rvs, config_counts, config_offsets,
                    gpc, gerr >>
    /\ UNCHANGED << segvars, radvars >>

\* lines 40-42: the file exists, continue
WorkerSkip(w) ==
    /\ gpc = "starmap" /\ worker[w].pc = "visit"
    /\ worker[w].sample_idx < worker[w].offset + worker[w].count
    /\ file_exists(files, worker[w].sample_idx)
    /\ worker' = [worker EXCEPT ![w].sample_idx = @ + 1]
    /\ UNCHANGED files
    /\ DatasetFrame

\* lines 40-46: the file does not exist
WorkerVisit(w) ==
    /\ gpc = "starmap" /\ worker[w].pc = "visit"
    /\ worker[w].sample_idx < worker[w].offset + worker[w].count
    /\ ~file_exists(files, worker[w].sample_idx)
    /\ worker' = [worker EXCEPT ![w].pc = "pipeline"]
    /\ UNCHANGED files
    /\ DatasetFrame

\* lines 47-62: generate_segments, simulate_radar, normalisation
WorkerPipeline(w) ==
    /\ gpc = "starmap" /\ worker[w].pc = "pipeline"
    /\ pipeline_error(rvs[worker[w].sample_idx + 1]) = ""
    /\ worker' = [worker EXCEPT ![w].pc = "write",
                                ![w].ran = Append(@, worker[w].sample_idx)]
    /\ UNCHANGED files
    /\ DatasetFrame

\* lines 47-55: generate_segments raises, the call ends
WorkerPipelineRaise(w) ==
    /\ gpc = "starmap" /\ worker[w].pc = "pipeline"
    /\ pipeline_error(rvs[worker[w].sample_idx + 1]) # ""
    /\ worker' = [worker EXCEPT ![w].pc = "raised",
                                ![w].err = pipeline_error(rvs[worker[w].sample_idx + 1])]
    /\ UNCHANGED files
    /\ DatasetFrame

\* lines 64-68: np.save to the sample's file, one row appended to df
WorkerWrite(w) ==
    /\ gpc = "starmap" /\ worker[w].pc = "write"
    /\ files' = Written(files, SampleFile(worker[w].sample_idx), ByWorker(w))
    /\ worker' = [worker EXCEPT ![w].pc = "visit",
                                ![w].df = Append(@, worker[w].sample_idx + 1),
                                ![w].sample_idx = @ + 1]
    /\ DatasetFrame

\* line 69: return df
WorkerReturn(w) ==
    /\ gpc = "starmap" /\ worker[w].pc = "visit"
    /\ worker[w].sample_idx >= worker[w].offset + worker[w].count
    /\ worker' = [worker EXCEPT ![w].pc = "done"]
    /\ UNCHANGED files
    /\ DatasetFrame

\* lines 118-132: every call has returned; the rows are gathered and saved
GenerateJoin ==
    /\ gpc = "starmap"
    /\ \A w \in Workers : worker[w].pc = "done"
    /\ files' = Written(files, DataframeFile, ByGenerate)
    /\ gpc' = "returned"
    /\ UNCHANGED << config_set, n_samples, rvs, config_counts, config_offsets,
                    worker, gerr >>
    /\ UNCHANGED << segvars, radvars >>

\* line 118: starmap re-raises the exception of a call once all have ended
GenerateJoinRaise ==
    /\ gpc = "starmap"
    /\ \A w \in Workers : worker[w].pc \in {"done", "raised"}
    /\ \E w \in Workers :
          /\ worker[w].pc = "raised"
          /\ \A w2 \in Workers : worker[w2].pc = "raised" => w <= w2
          /\ gerr' = worker[w].err
    /\ gpc' = "raised"
    /\ UNCHANGED << config_set, n_samples, rvs, files, config_counts,
                    config_offsets, worker >>
    /\ UNCHANGED << segvars, radvars >>

NextDataset ==
    \/ GenerateStart
    \/ GeneratePoolRaise
    \/ GeneratePool
    \/ \E w \in Workers : WorkerSkip(w)
    \/ \E w \in Workers : WorkerVisit(w)
    \/ \E w \in Workers : WorkerPipeline(w)
    \/ \E w \in Workers : WorkerPipelineRaise(w)
    \/ \E w \in Workers : WorkerWrite(w)
    \/ \E w \in Workers : WorkerReturn(w)
    \/ GenerateJoin
    \/ GenerateJoinRaise

SpecDataset == InitDataset /\ [][NextDataset]_vars

-----------------------------------------------------------------------------
(* Properties of the dataset generator, checked under SpecDataset.          *)

\* the sample indices of configuration cf_idx: range(offset, offset + count)
IndexRange(cf_idx) ==
    {idx \in 0..(n_samples - 1) \cup {-1, n_samples} :
        /\ config_offsets[cf_idx + 1] <= idx
        /\ idx < config_offsets[cf_idx + 1] + config_counts[cf_idx + 1]}
ConfigIndices == 0..(config_set.n - 1)
SampleWriters(idx) ==
    IF SampleFile(idx) \in DOMAIN files
    THEN {c \in ConfigIndices :
             \E j \in 1..Len(files[SampleFile(idx)]) :
                 files[SampleFile(idx)][j] = ByWorker(c)}
    ELSE {}
Partitioned == config_set.list /\ gpc \in {"pool", "starmap", "returned", "raised"}

\* C22: with a list of k >= 1 configurations the index ranges
\* [offset, offset + count) are pairwise disjoint and cover exactly
\* 0..n_samples-1, and in every interleaving of the workers each sample file
\* is written by at most one worker, the one whose range holds its index.
C22_DisjointCover ==
    Partitioned =>
        /\ Len(config_counts) = config_set.n /\ Len(config_offsets) = config_set.n
        /\ \A c \in ConfigIndices : config_counts[c + 1] >= 0
        /\ \A c1 \in ConfigIndices : \A c2 \in ConfigIndices :
              c1 # c2 => IndexRange(c1) \cap IndexRange(c2) = {}
        /\ UNION {IndexRange(c) : c \in ConfigIndices} = 0..(n_samples - 1)
        /\ \A idx \in 0..(n_samples - 1) :
              /\ Cardinality({c \in ConfigIndices : idx \in IndexRange(c)}) = 1
              /\ Cardinality(SampleWriters(idx)) <= 1
              /\ \A w \in SampleWriters(idx) : idx \in IndexRange(w)
        /\ \A w \in Workers :
              worker[w].pc \in {"pipeline", "write"} =>
                  worker[w].sample_idx \in IndexRange(w)

\* three workers on four samples, two of them about to write at the same
\* time, the last one the second file of its range
C22_TwoWorkersWriting ==
    /\ gpc = "starmap" /\ config_set.n = 3 /\ n_samples = 4
    /\ config_counts = << 1, 1, 2 >> /\ config_offsets = << 0, 1, 2 >>
    /\ worker[0].pc = "write" /\ worker[2].pc = "write"
    /\ worker[2].sample_idx = 3 /\ SampleWriters(2) = {2}

\* how often x occurs in the sequence s
Occurrences(s, x) == Cardinality({j \in 1..Len(s) : s[j] = x})

\* the indices of its range a worker has dealt with: the iterations of the
\* loop of line 40 that have ended
Dealt(w) == {idx \in IndexRange(w) : idx < worker[w].sample_idx}

\* C23: a sample whose file exists when its index is visited is skipped: the
\* pipeline is not run for it, its file is left unchanged and no metadata row
\* is produced for it; every other index the worker has dealt with has
\* exactly one write to its file, by this worker, one run of the pipeline
\* and one row; a worker that returns has dealt with its whole range.
C23_SkipExisting ==
    (Partitioned /\ gpc # "pool") =>
        \A w \in Workers :
            /\ \A idx \in Dealt(w) :
                  /\ SampleFile(idx) \in DOMAIN files
                  /\ IF files[SampleFile(idx)][1] = Before
                     THEN /\ files[SampleFile(idx)] = << Before >>
                          /\ Occurrences(worker[w].ran, idx) = 0
                          /\ Occurrences(worker[w].df, idx + 1) = 0
                     ELSE /\ files[SampleFile(idx)] = << ByWorker(w) >>
                          /\ Occurrences(worker[w].ran, idx) = 1
                          /\ Occurrences(worker[w].df, idx + 1) = 1
            /\ Len(worker[w].df) = Len(worker[w].ran) - (IF worker[w].pc = "write" THEN 1 ELSE 0)
            /\ worker[w].pc = "done" => Dealt(w) = IndexRange(w)

\* a worker has returned from a range of two indices, the first skipped
\* because its file was there, the second generated
C23_OneSkippedOneWritten ==
    /\ config_set.list /\ config_set.n = 3 /\ n_samples = 4
    /\ gpc = "starmap" /\ worker[2].pc = "done"
    /\ files[SampleFile(2)] = << Before >> /\ files[SampleFile(3)] = << ByWorker(2) >>
    /\ worker[2].ran = << 3 >> /\ worker[2].df = << 4 >>

\* C24 as stated: generate called with a single configuration object, not a
\* list, writes the configuration file and then generates all n_samples
\* samples under that configuration without raising.
C24_SingleConfiguration ==
    (~config_set.list /\ gpc # "generate") =>
        /\ files[SingleConfigFile] = << ByGenerate >>
        /\ gpc # "raised" /\ gerr = ""
        /\ gpc = "returned" =>
              \A idx \in 0..(n_samples - 1) : SampleFile(idx) \in DOMAIN files

====
